---- MODULE Spec2Model ----
(***************************************************************************)
(* PSO-based threshold segmentation (tyblue18/PSO).                        *)
(*                                                                         *)
(* The module models                                                       *)
(*   - the overlap metrics of metrics.py as operators over binary masks,   *)
(*   - pso_threshold of pso_segmentation.py (swarm, objective, finalize),  *)
(*   - the two slice processors (parallel_processing.process_single_image  *)
(*     and main.process_image_sequential),                                 *)
(*   - the batch run of main.main (collection and partition of records).   *)
(*                                                                         *)
(* Numbers.                                                                *)
(*   A metric value is the exact quotient a / (b + e*EPS) kept as the      *)
(*   record [a, b, e] (a, b naturals, e in {0,1}); EPS = 1e-8 is kept      *)
(*   symbolic. Comparisons cross-multiply and compare the integer part     *)
(*   first and the EPS part second, which is exact as long as every        *)
(*   count is below 1/EPS = 10^8. For such counts float64 does not absorb  *)
(*   the EPS either (x + 1e-8 # x for x < 2^27), so "= 1.0" and "= 0.0"    *)
(*   on the model's values agree with the floats the code returns.         *)
(*   A threshold is an integer in units of 1/ThreshScale (1/25500), so     *)
(*   that 0.01, 0.99 and every k/255 are on the grid. A pixel intensity    *)
(*   is its 8-bit level v (the image is float32(v)/255).                   *)
(***************************************************************************)
EXTENDS Integers, Sequences, FiniteSets, TLC

(***************************************************************************)
(* Bounds of the model                                                     *)
(***************************************************************************)
\* pixels per slice
NPix == 3

\* particles of the swarm (config.PSO_N_PARTICLES is 30; scaled down)
PSO_N_PARTICLES == 2

\* iterations of the swarm (config.PSO_ITERATIONS is 40; scaled down)
PSO_ITERATIONS == 2

\* the generator behind numpy's global random source has RngMod states
RngMod == 8

\* an unseeded random source starts in one of the states 0..MaxEntropy
MaxEntropy == 2

\* image files in the dataset directory, at most
MaxFiles == 2

\* worker processes of the pool, at most
MaxWorkers == 2

\* the largest CPU count cpu_count() reports in the model
MaxCpus == 3

\* the longest list of records handed to generate_summary_statistics
MaxRecords == 3

Pixels == 1..NPix

\* the 8-bit intensity levels an image of the model may hold
Levels == {0, 128, 255}

Masks == [Pixels -> {0, 1}]

Images == [Pixels -> Levels]

(***************************************************************************)
(* numpy helpers on binary masks                                           *)
(***************************************************************************)
\* m.sum()
Sum(m) == Cardinality({i \in Pixels : m[i] = 1})

\* gt & pred
And(g, p) == [i \in Pixels |-> IF g[i] = 1 /\ p[i] = 1 THEN 1 ELSE 0]

\* gt | pred
Or(g, p) == [i \in Pixels |-> IF g[i] = 1 \/ p[i] = 1 THEN 1 ELSE 0]

\* np.zeros_like(mask)
Zeros == [i \in Pixels |-> 0]

(***************************************************************************)
(* Metric values: a / (b + e*EPS)                                          *)
(***************************************************************************)
Flt(a, b, e) == [a |-> a, b |-> b, e |-> e]

\* the literal 1.0
One == Flt(1, 1, 0)

\* the literal 0.0
Zero == Flt(0, 1, 0)

\* x <= y on exact values (denominators are positive)
FLe(x, y) ==
    \/ x.a * y.b < y.a * x.b
    \/ /\ x.a * y.b = y.a * x.b
       /\ x.a * y.e <= y.a * x.e

\* x == y on exact values
FEq(x, y) == FLe(x, y) /\ FLe(y, x)

(***************************************************************************)
(* metrics.py                                                              *)
(***************************************************************************)
dice_either_empty(gt, pred) ==
    IF Sum(gt) = 0 \/ Sum(pred) = 0
    THEN One
    ELSE Flt(2 * Sum(And(gt, pred)), Sum(gt) + Sum(pred), 1)

dice_coefficient(gt, pred) ==
    LET gt_sum == Sum(gt)
        pred_sum == Sum(pred)
    IN  IF gt_sum = 0 /\ pred_sum = 0
        THEN One
        ELSE LET intersection == Sum(And(gt, pred))
             IN  Flt(2 * intersection, gt_sum + pred_sum, 1)

iou_either_empty(gt, pred) ==
    IF Sum(gt) = 0 \/ Sum(pred) = 0
    THEN One
    ELSE Flt(Sum(And(gt, pred)), Sum(Or(gt, pred)), 1)

iou_coefficient(gt, pred) ==
    LET gt_sum == Sum(gt)
        pred_sum == Sum(pred)
    IN  IF gt_sum = 0 /\ pred_sum = 0
        THEN One
        ELSE LET intersection == Sum(And(gt, pred))
                 union == Sum(Or(gt, pred))
             IN  Flt(intersection, union, 1)

precision_empty_pred_is_one(gt, pred) ==
    IF Sum(pred) = 0
    THEN One
    ELSE Flt(Sum(And(gt, pred)), Sum(pred), 1)

precision_coefficient(gt, pred) ==
    LET pred_sum == Sum(pred)
        gt_sum == Sum(gt)
    IN  IF pred_sum = 0
        THEN (IF gt_sum = 0 THEN One ELSE Zero)
        ELSE LET intersection == Sum(And(gt, pred))
             IN  Flt(intersection, pred_sum, 1)

recall_coefficient(gt, pred) ==
    LET gt_sum == Sum(gt)
        pred_sum == Sum(pred)
    IN  IF gt_sum = 0
        THEN (IF pred_sum = 0 THEN One ELSE Zero)
        ELSE LET intersection == Sum(And(gt, pred))
             IN  Flt(intersection, gt_sum, 1)

\* compute_all_metrics without the early return for two empty masks
compute_all_without_empty_case(gt, pred) ==
    LET intersection == Sum(And(gt, pred))
        gt_sum == Sum(gt)
        pred_sum == Sum(pred)
        union == Sum(Or(gt, pred))
        dice == IF gt_sum + pred_sum > 0
                THEN Flt(2 * intersection, gt_sum + pred_sum, 1)
                ELSE Zero
        iou == IF union > 0
               THEN Flt(intersection, union, 1)
               ELSE Zero
        precision == IF pred_sum > 0
                     THEN Flt(intersection, pred_sum, 1)
                     ELSE (IF gt_sum = 0 THEN One ELSE Zero)
        recall == IF gt_sum > 0
                  THEN Flt(intersection, gt_sum, 1)
                  ELSE (IF pred_sum = 0 THEN One ELSE Zero)
    IN  <<dice, iou, precision, recall>>

\* (dice, iou, precision, recall)
compute_all_metrics(gt, pred) ==
    LET intersection == Sum(And(gt, pred))
        gt_sum == Sum(gt)
        pred_sum == Sum(pred)
        union == Sum(Or(gt, pred))
    IN  IF gt_sum = 0 /\ pred_sum = 0
        THEN <<One, One, One, One>>
        ELSE LET dice == IF gt_sum + pred_sum > 0
                         THEN Flt(2 * intersection, gt_sum + pred_sum, 1)
                         ELSE Zero
                 iou == IF union > 0
                        THEN Flt(intersection, union, 1)
                        ELSE Zero
                 precision == IF pred_sum > 0
                              THEN Flt(intersection, pred_sum, 1)
                              ELSE (IF gt_sum = 0 THEN One ELSE Zero)
                 recall == IF gt_sum > 0
                           THEN Flt(intersection, gt_sum, 1)
                           ELSE (IF pred_sum = 0 THEN One ELSE Zero)
             IN  <<dice, iou, precision, recall>>

(***************************************************************************)
(* Thresholds and images                                                   *)
(***************************************************************************)
\* thresholds are integers in units of 1/ThreshScale
ThreshScale == 255 * 100

\* config.PSO_BOUNDS = (0.0, 1.0)
PSO_BOUNDS == <<0 * ThreshScale, 1 * ThreshScale>>

\* config.PSO_OPTIONS = {'c1': 1.5, 'c2': 1.5, 'w': 0.5}, as fractions
PSO_OPTIONS == [c1 |-> <<3, 2>>, c2 |-> <<3, 2>>, w |-> <<1, 2>>]

\* config.RANDOM_SEED
RANDOM_SEED == 0

\* Python's None, and a float threshold t
None == <<>>

Float(t) == <<t>>

\* Python truthiness of an Optional[float]: None and 0.0 are false
Truthy(threshold) == threshold # None /\ threshold[1] # 0

\* img > thresh for one pixel of level v. The pixel is float32(v)/255,
\* which for 1 <= v <= 254 rounds to a float32 strictly above the float64
\* quotient v/255.0, and is exact for v = 0 and v = 255; on the grid the
\* two meet only where thresh is v/255.0 itself.
PixelGreater(v, thresh) ==
    IF v >= 1 /\ v <= 254
    THEN v * (ThreshScale \div 255) >= thresh
    ELSE v * (ThreshScale \div 255) > thresh

\* (img > thresh).astype(np.uint8)
Binarize(img, thresh) ==
    [i \in Pixels |-> IF PixelGreater(img[i], thresh) THEN 1 ELSE 0]

(***************************************************************************)
(* pso_segmentation.py: the objective                                      *)
(***************************************************************************)
\* an objective that binarizes with img >= thresh
objective_inclusive_threshold(img, gt_mask, thresh) ==
    LET gt_sum == Sum(gt_mask)
        pred == [i \in Pixels |-> IF img[i] * (ThreshScale \div 255) >= thresh THEN 1 ELSE 0]
        intersection == Sum(And(gt_mask, pred))
        pred_sum == Sum(pred)
    IN  IF gt_sum = 0 /\ pred_sum = 0
        THEN Flt(-1, 1, 0)
        ELSE Flt(-(2 * intersection), gt_sum + pred_sum, 1)

\* one entry of objective(th_vec): the negated Dice of img > thresh
objective(img, gt_mask, thresh) ==
    LET gt_sum == Sum(gt_mask)
        pred == Binarize(img, thresh)
        intersection == Sum(And(gt_mask, pred))
        pred_sum == Sum(pred)
    IN  IF gt_sum = 0 /\ pred_sum = 0
        THEN Flt(-1, 1, 0)
        ELSE Flt(-(2 * intersection), gt_sum + pred_sum, 1)

\* x < y on costs
FLt(x, y) == ~FLe(y, x)

(***************************************************************************)
(* The random source. numpy's global generator is a deterministic stream:  *)
(* its state decides every later draw. A draw is uniform in [0, 1): the    *)
(* state s yields s / RngMod.                                              *)
(***************************************************************************)
RngNext(s) == (5 * s + 3) % RngMod

RECURSIVE RngAt(_, _)
\* the state after k draws from s
RngAt(s, k) == IF k = 0 THEN s ELSE RngAt(RngNext(s), k - 1)

\* the OS entropy an unseeded generator starts from
Entropy == 0..MaxEntropy

\* random.seed(seed): the state is a function of the seed alone
SeedState(seed) == seed % RngMod

(***************************************************************************)
(* The swarm (GlobalBestPSO of the optimisation library, per section 4.2)  *)
(***************************************************************************)
Particles == 1..PSO_N_PARTICLES

Clip(x) ==
    IF x < PSO_BOUNDS[1] THEN PSO_BOUNDS[1]
    ELSE IF x > PSO_BOUNDS[2] THEN PSO_BOUNDS[2]
    ELSE x

\* an array computed once: its elements are evaluated when it is built,
\* not each time one is read
Array(f) == IF f = <<>> THEN <<>> ELSE f

\* the first particle with the least cost in costs
ArgMin(costs) ==
    CHOOSE i \in Particles :
        /\ \A j \in Particles : FLe(costs[i], costs[j])
        /\ \A j \in Particles : j < i => FLt(costs[i], costs[j])

\* Initialized: positions uniform in [lo, hi], velocities in a small
\* symmetric range, personal bests the initial positions, the global best
\* the best of them. Consumes 2 * PSO_N_PARTICLES draws.
SwarmInit(img, gt_mask, rng) ==
    LET lo == PSO_BOUNDS[1]
        hi == PSO_BOUNDS[2]
        pos == Array([i \in Particles |->
                   lo + (RngAt(rng, i - 1) * (hi - lo)) \div RngMod])
        vel == Array([i \in Particles |->
                   ((2 * RngAt(rng, PSO_N_PARTICLES + i - 1) - RngMod) * (hi - lo))
                       \div (10 * RngMod)])
        cost == Array([i \in Particles |-> objective(img, gt_mask, pos[i])])
        g == ArgMin(cost)
    IN  [position |-> pos, velocity |-> vel,
         pbest_pos |-> pos, pbest_cost |-> cost,
         best_pos |-> pos[g], best_cost |-> cost[g]]

\* an iteration that takes the best particle of this iteration as the
\* global best, whether or not it improves on the best so far
swarm_iterate_forgets_best(sw, img, gt_mask, rng) ==
    LET cost == Array([i \in Particles |-> objective(img, gt_mask, sw.position[i])])
        better == Array([i \in Particles |-> FLt(cost[i], sw.pbest_cost[i])])
        pbest_pos == Array([i \in Particles |->
                         IF better[i] THEN sw.position[i] ELSE sw.pbest_pos[i]])
        pbest_cost == Array([i \in Particles |->
                          IF better[i] THEN cost[i] ELSE sw.pbest_cost[i]])
        g == ArgMin(cost)
        best_pos == sw.position[g]
        best_cost == cost[g]
        r1 == Array([i \in Particles |-> RngAt(rng, 2 * (i - 1))])
        r2 == Array([i \in Particles |-> RngAt(rng, 2 * (i - 1) + 1)])
        w == PSO_OPTIONS.w
        c1 == PSO_OPTIONS.c1
        c2 == PSO_OPTIONS.c2
        vel == Array([i \in Particles |->
                   (w[1] * sw.velocity[i]) \div w[2]
                   + (c1[1] * r1[i] * (pbest_pos[i] - sw.position[i]))
                         \div (c1[2] * RngMod)
                   + (c2[1] * r2[i] * (best_pos - sw.position[i]))
                         \div (c2[2] * RngMod)])
        pos == Array([i \in Particles |-> Clip(sw.position[i] + vel[i])])
    IN  [position |-> pos, velocity |-> vel,
         pbest_pos |-> pbest_pos, pbest_cost |-> pbest_cost,
         best_pos |-> best_pos, best_cost |-> best_cost]

\* One iteration: evaluate, update personal and global bests if improved,
\* update velocities and positions, clip into [lo, hi]. Consumes
\* 2 * PSO_N_PARTICLES draws (r1, r2 per particle).
SwarmIterate(sw, img, gt_mask, rng) ==
    LET cost == Array([i \in Particles |-> objective(img, gt_mask, sw.position[i])])
        better == Array([i \in Particles |-> FLt(cost[i], sw.pbest_cost[i])])
        pbest_pos == Array([i \in Particles |->
                         IF better[i] THEN sw.position[i] ELSE sw.pbest_pos[i]])
        pbest_cost == Array([i \in Particles |->
                          IF better[i] THEN cost[i] ELSE sw.pbest_cost[i]])
        g == ArgMin(pbest_cost)
        improved == FLt(pbest_cost[g], sw.best_cost)
        best_pos == IF improved THEN pbest_pos[g] ELSE sw.best_pos
        best_cost == IF improved THEN pbest_cost[g] ELSE sw.best_cost
        r1 == Array([i \in Particles |-> RngAt(rng, 2 * (i - 1))])
        r2 == Array([i \in Particles |-> RngAt(rng, 2 * (i - 1) + 1)])
        w == PSO_OPTIONS.w
        c1 == PSO_OPTIONS.c1
        c2 == PSO_OPTIONS.c2
        vel == Array([i \in Particles |->
                   (w[1] * sw.velocity[i]) \div w[2]
                   + (c1[1] * r1[i] * (pbest_pos[i] - sw.position[i]))
                         \div (c1[2] * RngMod)
                   + (c2[1] * r2[i] * (best_pos - sw.position[i]))
                         \div (c2[2] * RngMod)])
        pos == Array([i \in Particles |-> Clip(sw.position[i] + vel[i])])
    IN  [position |-> pos, velocity |-> vel,
         pbest_pos |-> pbest_pos, pbest_cost |-> pbest_cost,
         best_pos |-> best_pos, best_cost |-> best_cost]

\* no optimizer exists
NoSwarm == <<>>

(***************************************************************************)
(* pso_segmentation.py: the finalize step                                  *)
(***************************************************************************)
\* (img * 255).astype(np.uint8): float32(v)/255 * 255 truncates back to v
\* for every level v in 0..255
ToUint8(img) == [i \in Pixels |-> (img[i] * 255) \div 255]

RECURSIVE SumBelow(_, _, _)
\* the sum of the levels <= t among the pixels 1..k
SumBelow(u8, t, k) ==
    IF k = 0 THEN 0
    ELSE SumBelow(u8, t, k - 1) + (IF u8[k] <= t THEN u8[k] ELSE 0)

\* Otsu's threshold of an 8-bit image: the first level t that maximizes the
\* between-class variance q1*q2*(mu1 - mu2)^2 of the classes {<= t} and
\* {> t}, and 0 when the image has a single level. With n1, n2 the class
\* sizes and s1, s2 the class sums the variance is
\* (s1*n2 - s2*n1)^2 / (n^2 * n1 * n2). The variance changes only at levels
\* the image holds, so the first maximum is one of them.
OtsuThreshold(u8) ==
    LET n == NPix
        n1(t) == Cardinality({i \in Pixels : u8[i] <= t})
        s1(t) == SumBelow(u8, t, NPix)
        s == SumBelow(u8, 255, NPix)
        num(t) == (s1(t) * (n - n1(t)) - (s - s1(t)) * n1(t))
                  * (s1(t) * (n - n1(t)) - (s - s1(t)) * n1(t))
        den(t) == n1(t) * (n - n1(t))
        V == {t \in {u8[i] : i \in Pixels} : n1(t) < n}
        best == {t \in V : \A u \in V : num(t) * den(u) >= num(u) * den(t)}
    IN  IF V = {} THEN 0
        ELSE CHOOSE t \in best : \A u \in best : t <= u

\* threshold_otsu returned without the division by 255
finalize_without_scaling(img, candidate) ==
    IF candidate <= ThreshScale \div 100 \/ candidate >= (99 * ThreshScale) \div 100
    THEN OtsuThreshold(ToUint8(img)) * ThreshScale
    ELSE candidate

finalize_strict_cutoffs(img, candidate) ==
    IF candidate < ThreshScale \div 100 \/ candidate > (99 * ThreshScale) \div 100
    THEN OtsuThreshold(ToUint8(img)) * (ThreshScale \div 255)
    ELSE candidate

\* lines 71-83: keep the candidate unless it is <= 0.01 or >= 0.99, and
\* then return the Otsu threshold of the image divided by 255
Finalize(img, candidate) ==
    LET threshold == candidate
    IN  IF threshold <= ThreshScale \div 100
           \/ threshold >= (99 * ThreshScale) \div 100
        THEN LET img_uint8 == ToUint8(img)
                 threshold_otsu == OtsuThreshold(img_uint8)
             IN  threshold_otsu * (ThreshScale \div 255)
        ELSE threshold

(***************************************************************************)
(* The slice processors                                                    *)
(***************************************************************************)
\* parallel_processing.process_single_image, line 59
PredParallel(img, mask, threshold) ==
    IF Truthy(threshold) THEN Binarize(img, threshold[1]) ELSE Zeros

\* main.process_image_sequential, line 59
PredSequential(img, threshold) == Binarize(img, threshold[1])

\* the healthy branch of both processors
healthy_keeps_threshold == <<Zeros, Float(ThreshScale \div 2)>>

HealthyBranch == <<Zeros, None>>

(***************************************************************************)
(* pso_threshold as a whole, and the processors as functions of a file     *)
(***************************************************************************)
RECURSIVE SwarmAfter(_, _, _, _)
\* the swarm after k iterations, started with the random source in rng
SwarmAfter(img, gt_mask, rng, k) ==
    IF k = 0
    THEN SwarmInit(img, gt_mask, rng)
    ELSE LET sw == SwarmAfter(img, gt_mask, rng, k - 1)
         IN  SwarmIterate(sw, img, gt_mask, RngAt(rng, 2 * PSO_N_PARTICLES * k))

\* pso_threshold(img, gt_mask): the threshold, and the random source after
pso_threshold(img, gt_mask, rng) ==
    [threshold |-> Finalize(img, SwarmAfter(img, gt_mask, rng, PSO_ITERATIONS).best_pos),
     rng |-> RngAt(rng, 2 * PSO_N_PARTICLES * (PSO_ITERATIONS + 1))]

\* the tuple a processor returns
Record(base_name, metrics, threshold, img, mask, pred) ==
    [base_name |-> base_name, metrics |-> metrics, threshold |-> threshold,
     img |-> img, mask |-> mask, pred |-> pred]

\* A file of the dataset: the preprocessed image and binary mask it loads
\* to, whether its mask file exists, whether cv2.imread can decode it.
File(img, mask, mask_exists, readable) ==
    [img |-> img, mask |-> mask, mask_exists |-> mask_exists, readable |-> readable]

\* the files the model's dataset directory may hold
ImgRamp == [i \in Pixels |-> IF i = 1 THEN 0 ELSE IF i = 2 THEN 128 ELSE 255]

ImgDim == [i \in Pixels |-> IF i = NPix THEN 128 ELSE 0]

MaskLast == [i \in Pixels |-> IF i = NPix THEN 1 ELSE 0]

Catalog ==
    {File(ImgRamp, Zeros, TRUE, TRUE),
     File(ImgRamp, MaskLast, TRUE, TRUE),
     File(ImgDim, MaskLast, TRUE, TRUE),
     File(ImgRamp, MaskLast, FALSE, TRUE),
     File(ImgRamp, MaskLast, TRUE, FALSE)}

\* Whether a pso_threshold call can build and run its swarm under the
\* configuration: with config.PSO_N_PARTICLES or config.PSO_ITERATIONS not
\* positive the optimizer raises (an empty or negative-sized swarm cannot be
\* allocated or reduced over). config_ok says both are positive.
PsoRaises(config_ok) == ~config_ok

\* process_single_image(img_path, mask_dir, process_tumor): ret is None or
\* <<record>>; rng is the worker's random source afterwards. Every
\* exception raised in the body is caught (lines 65-66) and gives None.
process_single_image(base_name, file, process_tumor, rng, config_ok) ==
    IF ~file.mask_exists
    THEN [ret |-> None, rng |-> rng]
    ELSE IF ~file.readable
    THEN [ret |-> None, rng |-> rng]
    ELSE IF Sum(file.mask) = 0
    THEN [ret |-> <<Record(base_name, compute_all_metrics(file.mask, HealthyBranch[1]),
                           HealthyBranch[2], file.img, file.mask, HealthyBranch[1])>>,
          rng |-> rng]
    ELSE IF process_tumor /\ PsoRaises(config_ok)
    THEN [ret |-> None, rng |-> rng]
    ELSE LET pso == pso_threshold(file.img, file.mask, rng)
             threshold == IF process_tumor
                          THEN Float(pso.threshold)
                          ELSE Float(ThreshScale \div 2)
             pred == PredParallel(file.img, file.mask, threshold)
         IN  [ret |-> <<Record(base_name, compute_all_metrics(file.mask, pred),
                               threshold, file.img, file.mask, pred)>>,
              rng |-> IF process_tumor THEN pso.rng ELSE rng]

\* process_image_sequential(image_path, mask_path): ret is None when
\* load_image, load_mask or pso_threshold raised, else <<record>>
process_image_sequential(base_name, file, rng, config_ok) ==
    IF ~file.readable
    THEN [ret |-> None, rng |-> rng]
    ELSE IF Sum(file.mask) = 0
    THEN [ret |-> <<Record(base_name, compute_all_metrics(file.mask, HealthyBranch[1]),
                           HealthyBranch[2], file.img, file.mask, HealthyBranch[1])>>,
          rng |-> rng]
    ELSE IF PsoRaises(config_ok)
    THEN [ret |-> None, rng |-> rng]
    ELSE LET pso == pso_threshold(file.img, file.mask, rng)
             threshold == Float(pso.threshold)
             pred == PredSequential(file.img, threshold)
         IN  [ret |-> <<Record(base_name, compute_all_metrics(file.mask, pred),
                               threshold, file.img, file.mask, pred)>>,
              rng |-> pso.rng]

tumour_if_threshold_truthy(r) == Truthy(r.threshold)

\* main.py lines 127 and 166: a record goes to the tumour group when
\* mask.sum() > 0
IsTumourSlice(r) == Sum(r.mask) > 0

RECURSIVE SelectRecords(_, _, _)
\* the records of rs (in order) that are tumour records (want = TRUE) or
\* healthy records (want = FALSE): the loop of main.py lines 126-134
SelectRecords(rs, want, k) ==
    IF k = 0 THEN <<>>
    ELSE IF IsTumourSlice(rs[k]) = want
         THEN Append(SelectRecords(rs, want, k - 1), rs[k])
         ELSE SelectRecords(rs, want, k - 1)

(***************************************************************************)
(* main.main and process_images_parallel: their pure parts                 *)
(***************************************************************************)
\* config.K_TRIPLETS, the default of main's k_triplets
K_TRIPLETS == 6

Max(a, b) == IF a >= b THEN a ELSE b

Min(a, b) == IF a <= b THEN a ELSE b

\* a default pool size that forgets the minimum of one worker
pool_size_without_minimum(n_workers, cpus) ==
    IF n_workers = None THEN cpus - 1 ELSE n_workers[1]

\* parallel_processing.py lines 94-95 and Pool(n_workers): the size of the
\* pool for the n_workers argument (None or <<n>>) on a machine where
\* cpu_count() returns cpus
PoolSize(n_workers, cpus) ==
    IF n_workers = None THEN Max(1, cpus - 1) ELSE n_workers[1]

\* main.py line 113: which path main takes
ParallelPath(use_parallel, image_paths) == use_parallel /\ Len(image_paths) > 1

\* a log record about one slice (base_name 0: about no slice in particular)
LogEntry(level, base_name) == [level |-> level, base_name |-> base_name]

\* The files find_image_files returns, in the order of their sorted paths:
\* file 1 is /ab.png, file 2 is /b.png, file 3 is /c.png, ... A base name
\* and a path are sequences of characters.
Letters == <<"a", "b", "c", "d", "e", "f">>

BaseName(k) == IF k = 1 THEN <<"a", "b">> ELSE <<Letters[k]>>

PathOf(k) == <<"/">> \o BaseName(k) \o <<".", "p", "n", "g">>

\* Python's `s in p` on strings
Contains(p, s) == \E i \in 0..(Len(p) - Len(s)) : SubSeq(p, i + 1, i + Len(s)) = s

\* main.py line 142: next(p for p in image_paths if base_name in p)
FindPath(image_paths, base_name) ==
    image_paths[CHOOSE i \in DOMAIN image_paths :
                   /\ Contains(PathOf(image_paths[i]), BaseName(base_name))
                   /\ \A j \in 1..(i - 1) :
                         ~Contains(PathOf(image_paths[j]), BaseName(base_name))]

\* the panels of a saved triplet image {base_name}_triplet.png
Triplet(base_name, r) ==
    [name |-> base_name, img |-> r.img, mask |-> r.mask, pred |-> r.pred]

\* main.py lines 246-249: the rows of tumour_metrics.csv
CsvData(names, metrics, thresholds) ==
    [i \in 1..Min(Len(names), Min(Len(metrics), Len(thresholds))) |->
        <<names[i], metrics[i], thresholds[i]>>]

\* random.shuffle(names): the orders it can leave the list in
Shuffles(names) ==
    LET n == Len(names)
        perms == {f \in [1..n -> 1..n] : \A i, j \in 1..n : f[i] = f[j] => i = j}
    IN  {[i \in 1..n |-> names[f[i]]] : f \in perms}

\* the output files of main
PlotFiles == {"dice_hist_tumour.png", "metric_spread_tumour.png", "tau_vs_dice.png"}

ExportFiles(tumour_metrics, healthy_metrics) ==
    {"summary_statistics.json"}
        \cup (IF tumour_metrics # <<>> THEN {"tumour_metrics.csv"} ELSE {})
        \cup (IF healthy_metrics # <<>> THEN {"healthy_metrics.csv"} ELSE {})

(***************************************************************************)
(* numpy float64 / Python float: IEEE 754 binary64, round to nearest even. *)
(* Only non-negative finite values occur (metrics and thresholds).         *)
(***************************************************************************)
\* a natural below 2^58 in two limbs: <<hi, lo>> is hi * LimbBase + lo
LimbBase == 268435456      \* 2^28

Wide == Nat \X Nat

WZero == <<0, 0>>

WOne == <<0, 1>>

\* 2^52 and 2^53: a float64 significand m has 53 bits, Two52 <= m < Two53
Two52 == <<16777216, 0>>

Two53 == <<33554432, 0>>

Two54 == <<67108864, 0>>

WAdd(a, b) ==
    LET lo == a[2] + b[2]
    IN  <<a[1] + b[1] + (lo \div LimbBase), lo % LimbBase>>

\* a - b for a >= b
WSub(a, b) ==
    IF a[2] >= b[2]
    THEN <<a[1] - b[1], a[2] - b[2]>>
    ELSE <<a[1] - b[1] - 1, a[2] + LimbBase - b[2]>>

WLt(a, b) == a[1] < b[1] \/ (a[1] = b[1] /\ a[2] < b[2])

WDouble(a) == WAdd(a, a)

WHalf(a) == <<a[1] \div 2, (a[2] \div 2) + (a[1] % 2) * (LimbBase \div 2)>>

WOdd(a) == a[2] % 2 = 1

\* a float64: significand m (53 bits) and exponent x, the value m * 2^x;
\* 0.0 has m = 0
Float64(m, x) == [m |-> m, x |-> x]

Float64Zero == Float64(WZero, 0)

\* The float64 nearest to w * 2^x, ties to even. inexact: w * 2^x is the
\* truncation of a value with further nonzero bits (then w >= Two54).
Float64Round[w \in Wide, x \in Int, inexact \in BOOLEAN] ==
    IF w = WZero THEN Float64Zero
    ELSE IF WLt(w, Two53) THEN Float64Round[WDouble(w), x - 1, inexact]
    ELSE IF ~WLt(w, Two54) THEN Float64Round[WHalf(w), x + 1, inexact \/ WOdd(w)]
    ELSE LET q == WHalf(w)
             up == WOdd(w) /\ (inexact \/ WOdd(q))
             r == IF up THEN WAdd(q, WOne) ELSE q
         IN  IF r = Two53 THEN Float64(Two52, x + 2) ELSE Float64(r, x + 1)

\* float(n) for an int n, 0 <= n < 2^31
Float64FromInt(n) == Float64Round[<<n \div LimbBase, n % LimbBase>>, 0, FALSE]

\* w shifted right by n bits, and whether a nonzero bit was shifted out
ShiftRight[w \in Wide, n \in Nat, inexact \in BOOLEAN] ==
    IF n = 0 \/ w = WZero THEN <<w, inexact>>
    ELSE ShiftRight[WHalf(w), n - 1, inexact \/ WOdd(w)]

\* a + b
Float64Add(a, b) ==
    IF a.m = WZero THEN b
    ELSE IF b.m = WZero THEN a
    ELSE LET big == IF a.x >= b.x THEN a ELSE b
             small == IF a.x >= b.x THEN b ELSE a
             s == ShiftRight[WDouble(WDouble(small.m)), big.x - small.x, FALSE]
             sum == WAdd(WDouble(WDouble(big.m)), s[1])
         IN  Float64Round[sum, big.x - 2, s[2]]

\* the bits of a quotient computed before rounding: 53, a guard bit and
\* two more as the quotient of two significands lies between 1/2 and 2
QuotientBits == 56

\* long division: n more bits of the quotient q, from remainder r < 2 * d
LongDivide[r \in Wide, d \in Wide, q \in Wide, n \in Nat] ==
    IF n = 0 THEN <<q, r # WZero>>
    ELSE IF WLt(r, d)
         THEN LongDivide[WDouble(r), d, WDouble(q), n - 1]
         ELSE LongDivide[WDouble(WSub(r, d)), d, WAdd(WDouble(q), WOne), n - 1]

\* a / b for b > 0
Float64Div(a, b) ==
    IF a.m = WZero THEN Float64Zero
    ELSE LET qr == LongDivide[a.m, b.m, WZero, QuotientBits]
         IN  Float64Round[qr[1], a.x - b.x - (QuotientBits - 1), qr[2]]

\* a <= b
Float64Le(a, b) ==
    \/ a.m = WZero
    \/ /\ b.m # WZero
       /\ \/ a.x < b.x
          \/ a.x = b.x /\ ~WLt(b.m, a.m)

\* EPS = 1e-8: the literal is the float64 nearest to 1/10^8
EPS == Float64Div(Float64FromInt(1), Float64FromInt(100000000))

\* the float64 the metric code computes for a / (b + e*EPS) from the
\* integer (or integer-valued) counts a and b: a / b when e = 0
ToFloat64(v) ==
    IF v.e = 0
    THEN Float64Div(Float64FromInt(v.a), Float64FromInt(v.b))
    ELSE Float64Div(Float64FromInt(v.a), Float64Add(Float64FromInt(v.b), EPS))

(***************************************************************************)
(* results_exporter.py: generate_summary_statistics                        *)
(***************************************************************************)
\* np.add.reduce over the first k elements: for fewer than 8 elements the
\* sum is accumulated left to right from 0.0
RECURSIVE add_reduce(_, _)
add_reduce(xs, k) ==
    IF k = 0 THEN Float64Zero ELSE Float64Add(add_reduce(xs, k - 1), xs[k])

\* np.mean(xs): the sum divided by the number of elements
np_mean(xs) == Float64Div(add_reduce(xs, Len(xs)), Float64FromInt(Len(xs)))

\* np.std(xs) is kept symbolic: the operation and the list it is applied to
np_std(xs) == <<"std", xs>>

np_min(xs) ==
    CHOOSE v \in {xs[i] : i \in DOMAIN xs} : \A i \in DOMAIN xs : Float64Le(v, xs[i])

np_max(xs) ==
    CHOOSE v \in {xs[i] : i \in DOMAIN xs} : \A i \in DOMAIN xs : Float64Le(xs[i], v)

\* the first k elements of xs in non-decreasing order
RECURSIVE np_sort(_, _)
np_sort(xs, k) ==
    IF k = 0 THEN <<>>
    ELSE LET s == np_sort(xs, k - 1)
             n == Cardinality({i \in DOMAIN s : Float64Le(s[i], xs[k])})
         IN  SubSeq(s, 1, n) \o <<xs[k]>> \o SubSeq(s, n + 1, Len(s))

\* np.median(xs): the mean of the middle element, or of the two middle ones
np_median(xs) ==
    LET s == np_sort(xs, Len(xs))
        n == Len(xs)
    IN  IF n % 2 = 1
        THEN np_mean(<<s[(n + 1) \div 2]>>)
        ELSE np_mean(<<s[n \div 2], s[n \div 2 + 1]>>)

\* the five statistics of one column
ColumnStats(xs) ==
    [mean |-> np_mean(xs), std |-> np_std(xs), min |-> np_min(xs),
     max |-> np_max(xs), median |-> np_median(xs)]

\* tumour_arr[:, j]
Column(arr, j) == [i \in DOMAIN arr |-> arr[i][j]]

\* both groups present whatever the lists hold, an empty group zero-filled
summary_zero_fills_empty_group(tumour_metrics, healthy_metrics, tumour_thresholds) ==
    LET zeros == [mean |-> Float64Zero, std |-> Float64Zero, min |-> Float64Zero,
                  max |-> Float64Zero, median |-> Float64Zero]
        stats_of(arr, j) == IF arr = <<>> THEN zeros ELSE ColumnStats(Column(arr, j))
    IN  [group \in {"tumour", "healthy"} |->
            IF group = "tumour"
            THEN [count |-> Len(tumour_metrics),
                  dice |-> stats_of(tumour_metrics, 1),
                  iou |-> stats_of(tumour_metrics, 2),
                  precision |-> stats_of(tumour_metrics, 3),
                  recall |-> stats_of(tumour_metrics, 4),
                  threshold |-> IF tumour_metrics = <<>> THEN zeros
                                ELSE ColumnStats(tumour_thresholds)]
            ELSE [count |-> Len(healthy_metrics),
                  dice |-> stats_of(healthy_metrics, 1),
                  iou |-> stats_of(healthy_metrics, 2),
                  precision |-> stats_of(healthy_metrics, 3),
                  recall |-> stats_of(healthy_metrics, 4)]]

\* stats: a mapping from the group names present to the group's summary
generate_summary_statistics(tumour_metrics, healthy_metrics, tumour_thresholds) ==
    LET groups == (IF tumour_metrics # <<>> THEN {"tumour"} ELSE {})
                    \cup (IF healthy_metrics # <<>> THEN {"healthy"} ELSE {})
    IN  [group \in groups |->
            IF group = "tumour"
            THEN [count |-> Len(tumour_metrics),
                  dice |-> ColumnStats(Column(tumour_metrics, 1)),
                  iou |-> ColumnStats(Column(tumour_metrics, 2)),
                  precision |-> ColumnStats(Column(tumour_metrics, 3)),
                  recall |-> ColumnStats(Column(tumour_metrics, 4)),
                  threshold |-> ColumnStats(tumour_thresholds)]
            ELSE [count |-> Len(healthy_metrics),
                  dice |-> ColumnStats(Column(healthy_metrics, 1)),
                  iou |-> ColumnStats(Column(healthy_metrics, 2)),
                  precision |-> ColumnStats(Column(healthy_metrics, 3)),
                  recall |-> ColumnStats(Column(healthy_metrics, 4))]]

\* the float values of a metrics tuple (dice, iou, precision, recall)
MetricsFloat64(ms) == <<ToFloat64(ms[1]), ToFloat64(ms[2]), ToFloat64(ms[3]), ToFloat64(ms[4])>>

\* the float of a threshold given in units of 1 / ThreshScale
ThresholdFloat64(t) == Float64Div(Float64FromInt(t), Float64FromInt(ThreshScale))

\* Records a caller can have collected: the metrics of a prediction against
\* a two-pixel lesion with the threshold that produced it, and the metrics
\* of an empty reference mask against an empty and a non-empty prediction
MaskTwo == [i \in Pixels |-> IF i <= 2 THEN 1 ELSE 0]

MaskOne == [i \in Pixels |-> IF i = 1 THEN 1 ELSE 0]

TumourSamples ==
    {<<MetricsFloat64(compute_all_metrics(MaskTwo, MaskTwo)), ThresholdFloat64(ThreshScale \div 2)>>,
     <<MetricsFloat64(compute_all_metrics(MaskTwo, MaskOne)), ThresholdFloat64(ThreshScale \div 8)>>,
     <<MetricsFloat64(compute_all_metrics(MaskTwo, Zeros)), ThresholdFloat64(ThreshScale - ThreshScale \div 100)>>}

HealthySamples ==
    {MetricsFloat64(compute_all_metrics(Zeros, Zeros)),
     MetricsFloat64(compute_all_metrics(Zeros, MaskOne))}

(***************************************************************************)
(* State                                                                   *)
(***************************************************************************)
VARIABLES
    m_gt,       \* metrics harness: reference mask
    m_pred,     \* metrics harness: predicted mask
    m_ret,      \* metrics harness: what each metric function returned so far
    img,        \* slice processor: the preprocessed image (levels)
    mask,       \* slice processor: the reference mask
    processor,  \* "parallel" (process_single_image) or "sequential"
    pc,         \* slice processor: where the run is
    np_random,  \* state of numpy's global random source in this process
    py_random,  \* state of Python's random module in this process
    optimizer,  \* the swarm of the running pso_threshold call, or NoSwarm
    iters,      \* iterations the swarm has done
    threshold,  \* the processor's threshold: None or a float
    pred,       \* the processor's prediction mask
    metrics,    \* the processor's metrics tuple, or None
    pso_calls,  \* how often pso_threshold was invoked in this run
    run,        \* 1 for the first run of the program, 2 for the second
    first_threshold, \* the threshold the first run returned
    image_paths,     \* main: the sorted image files found (their base names)
    dataset,         \* main: what each file of the dataset holds
    use_parallel,    \* main: the use_parallel argument
    n_workers,       \* main: the n_workers argument, None or <<n>>
    config_ok,       \* config.PSO_N_PARTICLES and config.PSO_ITERATIONS are positive
    k_triplets,      \* main: the k_triplets argument
    main_pc,         \* main: where the batch run is
    main_np_random,  \* numpy's random source in the main process
    worker_np_random, \* numpy's random source in each worker process
    tasks,           \* pool.map: per input, NotCalled or <<what the unit returned>>
    next_i,          \* the next input to dispatch (pool) or to process (loop)
    results,         \* the records returned by the processors, in order
    tumour_metrics,
    tumour_thresholds,
    tumour_image_names,
    healthy_metrics,
    healthy_image_names,
    pool,            \* the worker pool: "none", "open" or "closed"
    pool_workers,    \* the number of worker processes of the pool
    cpu_count,       \* what cpu_count() returned, 0 when it was not called
    worker_task,     \* per worker: the input it is processing, 0 when idle
    log,             \* the warning and error records logged so far
    triplet_queue,   \* parallel path: the tumour names still to consider
    saved_triplets,  \* main: saved_triplets
    triplet_files,   \* the triplet images written
    tumour_csv,      \* the rows written to tumour_metrics.csv
    files_written,   \* the plot and result files written
    arg_tumour_metrics,    \* summary harness: the tumour_metrics argument
    arg_healthy_metrics,   \* summary harness: the healthy_metrics argument
    arg_tumour_thresholds, \* summary harness: the tumour_thresholds argument
    stats,           \* summary harness: NotCalled or <<the returned stats>>
    data,            \* process_batch: the request's JSON body
    api_pc,          \* process_batch: where the request handler is
    item_i,          \* process_batch: the item of data['images'] the loop is at
    api_lists,       \* process_batch: results, tumour_metrics, healthy_metrics, tumour_thresholds
    response         \* process_batch: NotCalled or the response returned

metricsVars == <<m_gt, m_pred, m_ret>>

sliceVars == <<img, mask, processor, pc, np_random, py_random, optimizer, iters,
               threshold, pred, metrics, pso_calls, run, first_threshold>>

\* what main is given and does not change
inputVars == <<image_paths, dataset, use_parallel, n_workers, config_ok, k_triplets>>

\* the lists main collects
groupVars == <<tumour_metrics, tumour_thresholds, tumour_image_names,
               healthy_metrics, healthy_image_names>>

\* the worker pool
poolVars == <<pool, pool_workers, cpu_count, worker_np_random, worker_task, tasks>>

\* what main has written
outputVars == <<log, saved_triplets, triplet_files, files_written, tumour_csv>>

batchVars == <<inputVars, groupVars, poolVars, outputVars, main_pc,
               main_np_random, next_i, results, triplet_queue>>

summaryVars == <<arg_tumour_metrics, arg_healthy_metrics, arg_tumour_thresholds, stats>>

apiVars == <<data, api_pc, item_i, api_lists, response>>

vars == <<metricsVars, sliceVars, batchVars, summaryVars, apiVars>>

\* the request handler when no request is served
ApiIdle ==
    /\ data = <<>>
    /\ api_pc = "idle"
    /\ item_i = 0
    /\ api_lists = <<>>
    /\ response = <<>>

\* the summary harness when generate_summary_statistics is not under test
SummaryIdle ==
    /\ arg_tumour_metrics = <<>>
    /\ arg_healthy_metrics = <<>>
    /\ arg_tumour_thresholds = <<>>
    /\ stats = <<>>

\* the metrics harness when no test runs
MetricsIdle ==
    /\ m_gt = Zeros
    /\ m_pred = Zeros
    /\ m_ret = <<>>

\* main when no batch runs
BatchIdle ==
    /\ image_paths = <<>>
    /\ dataset = <<>>
    /\ use_parallel = FALSE
    /\ n_workers = None
    /\ config_ok = TRUE
    /\ k_triplets = K_TRIPLETS
    /\ tumour_csv = <<>>
    /\ pool = "none"
    /\ pool_workers = 0
    /\ cpu_count = 0
    /\ worker_task = <<>>
    /\ log = {}
    /\ triplet_queue = <<>>
    /\ saved_triplets = 0
    /\ triplet_files = {}
    /\ files_written = {}
    /\ main_pc = "idle"
    /\ main_np_random = 0
    /\ worker_np_random = <<>>
    /\ tasks = <<>>
    /\ next_i = 0
    /\ results = <<>>
    /\ tumour_metrics = <<>>
    /\ tumour_thresholds = <<>>
    /\ tumour_image_names = <<>>
    /\ healthy_metrics = <<>>
    /\ healthy_image_names = <<>>

\* the slice processor when no slice is processed
SliceIdle ==
    /\ img = Zeros
    /\ mask = Zeros
    /\ processor = "none"
    /\ pc = "idle"
    /\ np_random = 0
    /\ py_random = 0
    /\ optimizer = NoSwarm
    /\ iters = 0
    /\ threshold = None
    /\ pred = Zeros
    /\ metrics = None
    /\ pso_calls = 0
    /\ run = 0
    /\ first_threshold = None

(***************************************************************************)
(* The metric functions called on a pair of masks (test_metrics.py)        *)
(***************************************************************************)
\* a function that was not called yet has returned nothing
NotCalled == <<>>

MetricsInit ==
    /\ SliceIdle
    /\ BatchIdle
    /\ SummaryIdle
    /\ ApiIdle
    /\ m_gt \in Masks
    /\ m_pred \in Masks
    /\ m_ret = [dice |-> NotCalled, iou |-> NotCalled, precision |-> NotCalled,
                recall |-> NotCalled, all |-> NotCalled]

CallDice ==
    /\ m_ret.dice = NotCalled
    /\ m_ret' = [m_ret EXCEPT !.dice = <<dice_coefficient(m_gt, m_pred)>>]
    /\ UNCHANGED <<m_gt, m_pred, sliceVars, batchVars, summaryVars, apiVars>>

CallIou ==
    /\ m_ret.iou = NotCalled
    /\ m_ret' = [m_ret EXCEPT !.iou = <<iou_coefficient(m_gt, m_pred)>>]
    /\ UNCHANGED <<m_gt, m_pred, sliceVars, batchVars, summaryVars, apiVars>>

CallPrecision ==
    /\ m_ret.precision = NotCalled
    /\ m_ret' = [m_ret EXCEPT !.precision = <<precision_coefficient(m_gt, m_pred)>>]
    /\ UNCHANGED <<m_gt, m_pred, sliceVars, batchVars, summaryVars, apiVars>>

CallRecall ==
    /\ m_ret.recall = NotCalled
    /\ m_ret' = [m_ret EXCEPT !.recall = <<recall_coefficient(m_gt, m_pred)>>]
    /\ UNCHANGED <<m_gt, m_pred, sliceVars, batchVars, summaryVars, apiVars>>

CallComputeAll ==
    /\ m_ret.all = NotCalled
    /\ m_ret' = [m_ret EXCEPT !.all = compute_all_metrics(m_gt, m_pred)]
    /\ UNCHANGED <<m_gt, m_pred, sliceVars, batchVars, summaryVars, apiVars>>

MetricsNext ==
    \/ CallDice
    \/ CallIou
    \/ CallPrecision
    \/ CallRecall
    \/ CallComputeAll

SpecMetrics == MetricsInit /\ [][MetricsNext]_vars

(***************************************************************************)
(* generate_summary_statistics called on the lists a caller collected      *)
(***************************************************************************)
SummaryInit ==
    /\ MetricsIdle
    /\ ApiIdle
    /\ SliceIdle
    /\ BatchIdle
    /\ \E nt \in 0..MaxRecords, nh \in 0..MaxRecords :
          \E ts \in [1..nt -> TumourSamples], hs \in [1..nh -> HealthySamples] :
             /\ arg_tumour_metrics = [i \in 1..nt |-> ts[i][1]]
             /\ arg_tumour_thresholds = [i \in 1..nt |-> ts[i][2]]
             /\ arg_healthy_metrics = hs
    /\ stats = NotCalled

CallGenerateSummary ==
    /\ stats = NotCalled
    /\ stats' = <<generate_summary_statistics(arg_tumour_metrics, arg_healthy_metrics,
                                              arg_tumour_thresholds)>>
    /\ UNCHANGED <<metricsVars, sliceVars, batchVars, apiVars, arg_tumour_metrics,
                   arg_healthy_metrics, arg_tumour_thresholds>>

SummaryNext == CallGenerateSummary

SpecSummary == SummaryInit /\ [][SummaryNext]_vars

(***************************************************************************)
(* One slice through a slice processor, in one run of the program.         *)
(* main seeds Python's random module (main.py line 94); numpy's global     *)
(* random source, which the swarm draws from, is seeded nowhere and starts *)
(* from OS entropy.                                                        *)
(***************************************************************************)
SliceInit ==
    /\ MetricsIdle
    /\ BatchIdle
    /\ SummaryIdle
    /\ ApiIdle
    /\ img \in Images
    /\ mask \in Masks
    /\ processor \in {"parallel", "sequential"}
    /\ pc = "loaded"
    /\ np_random \in Entropy
    /\ py_random = SeedState(RANDOM_SEED)
    /\ optimizer = NoSwarm
    /\ iters = 0
    /\ threshold = None
    /\ pred = Zeros
    /\ metrics = None
    /\ pso_calls = 0
    /\ run = 1
    /\ first_threshold = None

\* mask.sum() == 0: the healthy branch, then compute_all_metrics and return
HealthySlice ==
    /\ pc = "loaded"
    /\ Sum(mask) = 0
    /\ pred' = HealthyBranch[1]
    /\ threshold' = HealthyBranch[2]
    /\ metrics' = compute_all_metrics(mask, HealthyBranch[1])
    /\ pc' = "done"
    /\ UNCHANGED <<summaryVars, apiVars, metricsVars, batchVars, img, mask, processor, np_random, py_random,
                   optimizer, iters, pso_calls, run, first_threshold>>

\* mask.sum() > 0: pso_threshold is called and builds its swarm
PsoStart ==
    /\ pc = "loaded"
    /\ Sum(mask) # 0
    /\ optimizer' = SwarmInit(img, mask, np_random)
    /\ np_random' = RngAt(np_random, 2 * PSO_N_PARTICLES)
    /\ iters' = 0
    /\ pso_calls' = pso_calls + 1
    /\ pc' = "optimizing"
    /\ UNCHANGED <<summaryVars, apiVars, metricsVars, batchVars, img, mask, processor, py_random, threshold, pred,
                   metrics, run, first_threshold>>

\* an optimize loop that does not count its iterations
pso_iterate_without_counting ==
    /\ pc = "optimizing"
    /\ iters < PSO_ITERATIONS
    /\ optimizer' = SwarmIterate(optimizer, img, mask, np_random)
    /\ np_random' = RngAt(np_random, 2 * PSO_N_PARTICLES)
    /\ iters' = iters
    /\ UNCHANGED <<summaryVars, apiVars, metricsVars, batchVars, img, mask, processor, pc, py_random, threshold,
                   pred, metrics, pso_calls, run, first_threshold>>

\* optimizer.optimize: one of the iters=config.PSO_ITERATIONS iterations
PsoIterate ==
    /\ pc = "optimizing"
    /\ iters < PSO_ITERATIONS
    /\ optimizer' = SwarmIterate(optimizer, img, mask, np_random)
    /\ np_random' = RngAt(np_random, 2 * PSO_N_PARTICLES)
    /\ iters' = iters + 1
    /\ UNCHANGED <<summaryVars, apiVars, metricsVars, batchVars, img, mask, processor, pc, py_random, threshold,
                   pred, metrics, pso_calls, run, first_threshold>>

\* a finalize step that takes the first particle's last position as the
\* candidate
pso_finalize_takes_last_position ==
    /\ pc = "optimizing"
    /\ iters = PSO_ITERATIONS
    /\ threshold' = Float(Finalize(img, optimizer.position[1]))
    /\ pc' = "thresholded"
    /\ UNCHANGED <<summaryVars, apiVars, metricsVars, batchVars, img, mask, processor, np_random, py_random,
                   optimizer, iters, pred, metrics, pso_calls, run,
                   first_threshold>>

\* optimize returns best_pos; pso_threshold finalizes and returns
PsoFinalize ==
    /\ pc = "optimizing"
    /\ iters = PSO_ITERATIONS
    /\ threshold' = Float(Finalize(img, optimizer.best_pos))
    /\ pc' = "thresholded"
    /\ UNCHANGED <<summaryVars, apiVars, metricsVars, batchVars, img, mask, processor, np_random, py_random,
                   optimizer, iters, pred, metrics, pso_calls, run,
                   first_threshold>>

\* the rest of the tumour branch: the prediction, then compute_all_metrics
Predict ==
    /\ pc = "thresholded"
    /\ LET p == IF processor = "parallel"
                THEN PredParallel(img, mask, threshold)
                ELSE PredSequential(img, threshold)
       IN  /\ pred' = p
           /\ metrics' = compute_all_metrics(mask, p)
    /\ pc' = "done"
    /\ UNCHANGED <<summaryVars, apiVars, metricsVars, batchVars, img, mask, processor, np_random, py_random,
                   optimizer, iters, threshold, pso_calls, run, first_threshold>>

\* the program is run a second time on the same slice, with the same
\* configuration: a new process, seeded again by main
Rerun ==
    /\ pc = "done"
    /\ run = 1
    /\ run' = 2
    /\ first_threshold' = threshold
    /\ np_random' \in Entropy
    /\ py_random' = SeedState(RANDOM_SEED)
    /\ optimizer' = NoSwarm
    /\ iters' = 0
    /\ threshold' = None
    /\ pred' = Zeros
    /\ metrics' = None
    /\ pso_calls' = 0
    /\ pc' = "loaded"
    /\ UNCHANGED <<summaryVars, apiVars, metricsVars, batchVars, img, mask, processor>>

SliceNext ==
    \/ HealthySlice
    \/ PsoStart
    \/ PsoIterate
    \/ PsoFinalize
    \/ Predict
    \/ Rerun

Spec == SliceInit /\ [][SliceNext]_vars

(***************************************************************************)
(* One pso_threshold call on a tumour slice of the dataset, numpy's random *)
(* source starting in any of its states                                    *)
(***************************************************************************)
\* a slice whose middle level lies just above a position of the initial swarm
ImgBright == [i \in Pixels |-> IF i = 1 THEN 0 ELSE IF i = NPix THEN 255 ELSE 160]

SwarmRunInit ==
    /\ MetricsIdle
    /\ BatchIdle
    /\ SummaryIdle
    /\ ApiIdle
    /\ img \in {ImgRamp, ImgDim, ImgBright}
    /\ mask \in {m \in Masks : Sum(m) > 0}
    /\ processor \in {"parallel", "sequential"}
    /\ pc = "loaded"
    /\ np_random \in 0..(RngMod - 1)
    /\ py_random = SeedState(RANDOM_SEED)
    /\ optimizer = NoSwarm
    /\ iters = 0
    /\ threshold = None
    /\ pred = Zeros
    /\ metrics = None
    /\ pso_calls = 0
    /\ run = 1
    /\ first_threshold = None

SwarmRunNext ==
    \/ PsoStart
    \/ PsoIterate
    \/ PsoFinalize
    \/ Predict

SpecSwarmRun == SwarmRunInit /\ [][SwarmRunNext]_vars

(***************************************************************************)
(* A batch run of main.main: the dataset is found, every slice goes        *)
(* through the worker pool (process_images_parallel) or through the        *)
(* sequential loop, and the records are partitioned into the tumour and    *)
(* the healthy lists.                                                      *)
(***************************************************************************)
\* the dataset holds more than one tumour slice that loads: only then can a
\* k_triplets below the number of files change what main does
ManyTumourFiles(ds) ==
    Cardinality({k \in DOMAIN ds :
                    ds[k].mask_exists /\ ds[k].readable /\ Sum(ds[k].mask) > 0}) > 1

BatchStart(valid) ==
    /\ MetricsIdle
    /\ SliceIdle
    /\ SummaryIdle
    /\ ApiIdle
    /\ \E n \in 0..MaxFiles :
          /\ image_paths = [k \in 1..n |-> k]
          /\ dataset \in [1..n -> Catalog]
    /\ use_parallel \in BOOLEAN
    /\ n_workers \in {None} \cup {<<n>> : n \in 1..MaxWorkers}
    /\ config_ok = valid
    /\ k_triplets \in {K_TRIPLETS} \cup (IF ManyTumourFiles(dataset) THEN {1} ELSE {})
    /\ tumour_csv = <<>>
    /\ main_pc = "start"
    /\ main_np_random \in Entropy
    /\ pool = "none"
    /\ pool_workers = 0
    /\ cpu_count = 0
    /\ worker_np_random = <<>>
    /\ worker_task = <<>>
    /\ tasks = <<>>
    /\ next_i = 0
    /\ results = <<>>
    /\ tumour_metrics = <<>>
    /\ tumour_thresholds = <<>>
    /\ tumour_image_names = <<>>
    /\ healthy_metrics = <<>>
    /\ healthy_image_names = <<>>
    /\ log = {}
    /\ triplet_queue = <<>>
    /\ saved_triplets = 0
    /\ triplet_files = {}
    /\ files_written = {}

\* main started under the configuration as shipped (config.py lines 23-24)
BatchInit == BatchStart(TRUE)

\* main started under either configuration: the particle and iteration
\* counts of config.py are positive, or one of them was set non-positive
AnyConfigInit == \E valid \in BOOLEAN : BatchStart(valid)

\* an empty dataset that main processes like any other
main_continues_when_empty ==
    /\ main_pc = "start"
    /\ Len(image_paths) = 0
    /\ next_i' = 1
    /\ main_pc' = "loop"
    /\ UNCHANGED <<summaryVars, apiVars, metricsVars, sliceVars, inputVars, groupVars, poolVars,
                   outputVars, main_np_random, results, triplet_queue>>

\* main.py lines 100-102: no images found
MainAbortEmpty ==
    /\ main_pc = "start"
    /\ Len(image_paths) = 0
    /\ log' = log \cup {LogEntry("error", 0)}
    /\ main_pc' = "aborted"
    /\ UNCHANGED <<summaryVars, apiVars, metricsVars, sliceVars, inputVars, groupVars, poolVars,
                   saved_triplets, triplet_files, files_written, tumour_csv,
                   main_np_random, next_i, results, triplet_queue>>

\* main.py line 113 and process_images_parallel up to Pool(n_workers): the
\* pool size is chosen (cpu_count() returns cpus), the workers are forked
\* from main and inherit its random source
MainStartParallel ==
    /\ main_pc = "start"
    /\ ParallelPath(use_parallel, image_paths)
    /\ \E cpus \in 1..MaxCpus :
          LET size == PoolSize(n_workers, cpus)
          IN  /\ cpu_count' = (IF n_workers = None THEN cpus ELSE 0)
              /\ pool_workers' = size
              /\ worker_np_random' = [w \in 1..size |-> main_np_random]
              /\ worker_task' = [w \in 1..size |-> 0]
    /\ pool' = "open"
    /\ tasks' = [k \in 1..Len(image_paths) |-> NotCalled]
    /\ next_i' = 1
    /\ main_pc' = "pool"
    /\ UNCHANGED <<summaryVars, apiVars, metricsVars, sliceVars, inputVars, groupVars, outputVars,
                   main_np_random, results, triplet_queue>>

\* a worker that takes the next input without marking it as handed out
worker_take_without_advancing(w) ==
    /\ pool = "open"
    /\ worker_task[w] = 0
    /\ next_i <= Len(image_paths)
    /\ tasks[next_i] = NotCalled
    /\ worker_task' = [worker_task EXCEPT ![w] = next_i]
    /\ next_i' = next_i
    /\ UNCHANGED <<summaryVars, apiVars, metricsVars, sliceVars, inputVars, groupVars, outputVars,
                   pool, pool_workers, cpu_count, worker_np_random, tasks,
                   main_pc, main_np_random, results, triplet_queue>>

\* pool.map: the idle worker w takes the next input
WorkerTake(w) ==
    /\ pool = "open"
    /\ worker_task[w] = 0
    /\ next_i <= Len(image_paths)
    /\ worker_task' = [worker_task EXCEPT ![w] = next_i]
    /\ next_i' = next_i + 1
    /\ UNCHANGED <<summaryVars, apiVars, metricsVars, sliceVars, inputVars, groupVars, outputVars,
                   pool, pool_workers, cpu_count, worker_np_random, tasks,
                   main_pc, main_np_random, results, triplet_queue>>

\* pool.map: worker w runs process_single_image on its input and returns
\* the result; the worker logs nothing
WorkerRun(w) ==
    /\ pool = "open"
    /\ worker_task[w] # 0
    /\ \E r \in {process_single_image(image_paths[worker_task[w]],
                                       dataset[image_paths[worker_task[w]]],
                                       TRUE, worker_np_random[w], config_ok)} :
          /\ tasks' = [tasks EXCEPT ![worker_task[w]] = <<r.ret>>]
          /\ worker_np_random' = [worker_np_random EXCEPT ![w] = r.rng]
    /\ worker_task' = [worker_task EXCEPT ![w] = 0]
    /\ UNCHANGED <<summaryVars, apiVars, metricsVars, sliceVars, inputVars, groupVars, outputVars,
                   pool, pool_workers, cpu_count, main_pc, main_np_random,
                   next_i, results, triplet_queue>>

\* a batch call that an exception in one unit ends: the records returned
\* are those before the first failed unit
not_none_until_failure(ts, k) ==
    LET bad == {j \in 1..k : ts[j][1] = None}
        stop == IF bad = {} THEN k
                ELSE (CHOOSE j \in bad : \A i \in bad : j <= i) - 1
    IN  [j \in 1..stop |-> ts[j][1][1]]

RECURSIVE not_none_newest_first(_, _)
\* the records collected in the reverse of the input order
not_none_newest_first(ts, k) ==
    IF k = 0 THEN <<>>
    ELSE IF ts[k][1] = None
         THEN not_none_newest_first(ts, k - 1)
         ELSE <<ts[k][1][1]>> \o not_none_newest_first(ts, k - 1)

RECURSIVE NotNone(_, _)
\* [r for r in results if r is not None], over the first k units
NotNone(ts, k) ==
    IF k = 0 THEN <<>>
    ELSE IF ts[k][1] = None
         THEN NotNone(ts, k - 1)
         ELSE Append(NotNone(ts, k - 1), ts[k][1][1])

\* a map call that returns as soon as every input was handed out
pool_returns_when_dispatched ==
    /\ main_pc = "pool"
    /\ next_i > Len(image_paths)
    /\ results' = NotNone([k \in DOMAIN tasks |->
                              IF tasks[k] = NotCalled THEN <<None>> ELSE tasks[k]],
                          Len(tasks))
    /\ main_pc' = "returned"
    /\ UNCHANGED <<summaryVars, apiVars, metricsVars, sliceVars, inputVars, groupVars, outputVars,
                   poolVars, main_np_random, next_i, triplet_queue>>

\* pool.map returns when every unit has returned; leaving the with block
\* shuts the pool down (lines 101-102); the None results are filtered out
\* and process_images_parallel returns (line 105)
PoolReturn ==
    /\ main_pc = "pool"
    /\ \A k \in DOMAIN tasks : tasks[k] # NotCalled
    /\ pool' = "closed"
    /\ results' = NotNone(tasks, Len(tasks))
    /\ main_pc' = "returned"
    /\ UNCHANGED <<summaryVars, apiVars, metricsVars, sliceVars, inputVars, groupVars, outputVars,
                   pool_workers, cpu_count, worker_np_random, worker_task,
                   tasks, main_np_random, next_i, triplet_queue>>

\* main.py lines 123-134: organize the returned records
OrganizeResults ==
    /\ main_pc = "returned"
    /\ LET tumour == SelectRecords(results, TRUE, Len(results))
           healthy == SelectRecords(results, FALSE, Len(results))
       IN  /\ tumour_metrics' = [k \in 1..Len(tumour) |-> tumour[k].metrics]
           /\ tumour_thresholds' = [k \in 1..Len(tumour) |-> tumour[k].threshold]
           /\ tumour_image_names' = [k \in 1..Len(tumour) |-> tumour[k].base_name]
           /\ healthy_metrics' = [k \in 1..Len(healthy) |-> healthy[k].metrics]
           /\ healthy_image_names' = [k \in 1..Len(healthy) |-> healthy[k].base_name]
    /\ main_pc' = "collected"
    /\ UNCHANGED <<summaryVars, apiVars, metricsVars, sliceVars, inputVars, poolVars, outputVars,
                   main_np_random, next_i, results, triplet_queue>>

\* main.py lines 137-139: the tumour names are shuffled in place and the
\* first k_triplets of them are the candidates for a qualitative example
StartTriplets ==
    /\ main_pc = "collected"
    /\ ParallelPath(use_parallel, image_paths)
    /\ \E shuffled \in Shuffles(tumour_image_names) :
          /\ tumour_image_names' = shuffled
          /\ triplet_queue' = SubSeq(shuffled, 1, Min(k_triplets, Len(shuffled)))
    /\ main_pc' = "triplets"
    /\ UNCHANGED <<summaryVars, apiVars, metricsVars, sliceVars, inputVars, poolVars, outputVars,
                   tumour_metrics, tumour_thresholds, healthy_metrics,
                   healthy_image_names, main_np_random, next_i, results>>

\* main.py lines 139-151: one pass of the loop over the candidates. save is
\* random.random() < triplet_prob; for a saved slice the first path that
\* contains its base name is processed by process_image_sequential in the
\* main process, and the triplet is written under the base name.
TripletStep ==
    /\ main_pc = "triplets"
    /\ triplet_queue # <<>>
    /\ \E save \in BOOLEAN, img_path \in {FindPath(image_paths, Head(triplet_queue))} :
        \E r \in {process_image_sequential(Head(triplet_queue), dataset[img_path],
                                          main_np_random, config_ok)} :
          LET base_name == Head(triplet_queue)
              file == dataset[img_path]
          IN  IF ~save
              THEN /\ triplet_queue' = Tail(triplet_queue)
                   /\ UNCHANGED <<main_np_random, outputVars>>
              ELSE IF ~file.mask_exists \/ r.ret = None
              THEN /\ log' = log \cup {LogEntry("warning", base_name)}
                   /\ triplet_queue' = Tail(triplet_queue)
                   /\ UNCHANGED <<main_np_random, saved_triplets, triplet_files,
                                  files_written, tumour_csv>>
              ELSE /\ main_np_random' = r.rng
                   /\ triplet_files' = triplet_files \cup {Triplet(base_name, r.ret[1])}
                   /\ saved_triplets' = saved_triplets + 1
                   /\ triplet_queue' = IF saved_triplets + 1 >= k_triplets
                                       THEN <<>>
                                       ELSE Tail(triplet_queue)
                   /\ UNCHANGED <<log, files_written, tumour_csv>>
    /\ UNCHANGED <<summaryVars, apiVars, metricsVars, sliceVars, inputVars, groupVars, poolVars,
                   main_pc, next_i, results>>

\* main.py lines 152-154: the sequential path
MainStartSequential ==
    /\ main_pc = "start"
    /\ Len(image_paths) > 0
    /\ ~ParallelPath(use_parallel, image_paths)
    /\ next_i' = 1
    /\ main_pc' = "loop"
    /\ UNCHANGED <<summaryVars, apiVars, metricsVars, sliceVars, inputVars, groupVars, poolVars,
                   outputVars, main_np_random, results, triplet_queue>>

\* a loop that saves a triplet whenever the draw says so
save_triplet_without_limit(saved, k, save) == save

\* main.py line 173: saved_triplets < k_triplets and random.random() <
\* triplet_prob, save being the outcome of the draw
SaveTriplet(saved, k, save) == saved < k /\ save

\* main.py lines 155-183: one pass of the sequential loop. results keeps
\* the tuples process_image_sequential returned (with their base names);
\* save is random.random() < triplet_prob.
SequentialStep ==
    /\ main_pc = "loop"
    /\ next_i <= Len(image_paths)
    /\ \E r \in {process_image_sequential(image_paths[next_i],
                                          dataset[image_paths[next_i]],
                                          main_np_random, config_ok)} :
       LET base_name == image_paths[next_i]
           file == dataset[base_name]
       IN  IF ~file.mask_exists
           THEN /\ log' = log \cup {LogEntry("warning", base_name)}
                /\ UNCHANGED <<main_np_random, results, groupVars,
                               saved_triplets, triplet_files>>
           ELSE IF r.ret = None
           THEN /\ log' = log \cup {LogEntry("error", base_name)}
                /\ UNCHANGED <<main_np_random, results, groupVars,
                               saved_triplets, triplet_files>>
           ELSE /\ main_np_random' = r.rng
                /\ results' = Append(results, r.ret[1])
                /\ log' = log
                /\ IF IsTumourSlice(r.ret[1])
                   THEN /\ tumour_metrics' = Append(tumour_metrics, r.ret[1].metrics)
                        /\ tumour_thresholds' = Append(tumour_thresholds, r.ret[1].threshold)
                        /\ tumour_image_names' = Append(tumour_image_names, base_name)
                        /\ UNCHANGED <<healthy_metrics, healthy_image_names>>
                        /\ \E save \in BOOLEAN :
                              IF SaveTriplet(saved_triplets, k_triplets, save)
                              THEN /\ triplet_files' =
                                         triplet_files \cup {Triplet(base_name, r.ret[1])}
                                   /\ saved_triplets' = saved_triplets + 1
                              ELSE UNCHANGED <<saved_triplets, triplet_files>>
                   ELSE /\ healthy_metrics' = Append(healthy_metrics, r.ret[1].metrics)
                        /\ healthy_image_names' = Append(healthy_image_names, base_name)
                        /\ UNCHANGED <<tumour_metrics, tumour_thresholds,
                                       tumour_image_names, saved_triplets,
                                       triplet_files>>
    /\ next_i' = next_i + 1
    /\ UNCHANGED <<summaryVars, apiVars, metricsVars, sliceVars, inputVars, poolVars, files_written,
                   tumour_csv, main_pc, triplet_queue>>

\* the sequential loop is over
SequentialDone ==
    /\ main_pc = "loop"
    /\ next_i > Len(image_paths)
    /\ main_pc' = "collected"
    /\ UNCHANGED <<summaryVars, apiVars, metricsVars, sliceVars, inputVars, groupVars, poolVars,
                   outputVars, main_np_random, next_i, results, triplet_queue>>

\* main.py lines 185-263: the summary is printed, the plots are drawn when
\* there is a tumour record, and with export_results the summary and the
\* per-image files are written
ExportResults ==
    /\ \/ main_pc = "triplets" /\ triplet_queue = <<>>
       \/ main_pc = "collected" /\ ~ParallelPath(use_parallel, image_paths)
    /\ \E export_results \in BOOLEAN :
          /\ files_written' =
                files_written
                    \cup (IF tumour_metrics # <<>> THEN PlotFiles ELSE {})
                    \cup (IF export_results
                          THEN ExportFiles(tumour_metrics, healthy_metrics)
                          ELSE {})
          /\ tumour_csv' =
                IF export_results /\ tumour_metrics # <<>>
                THEN CsvData(tumour_image_names, tumour_metrics, tumour_thresholds)
                ELSE tumour_csv
    /\ main_pc' = "done"
    /\ UNCHANGED <<summaryVars, apiVars, metricsVars, sliceVars, inputVars, groupVars, poolVars,
                   log, saved_triplets, triplet_files, main_np_random, next_i,
                   results, triplet_queue>>

BatchNext ==
    \/ MainAbortEmpty
    \/ MainStartParallel
    \/ \E w \in 1..pool_workers : WorkerTake(w)
    \/ \E w \in 1..pool_workers : WorkerRun(w)
    \/ PoolReturn
    \/ OrganizeResults
    \/ StartTriplets
    \/ TripletStep
    \/ MainStartSequential
    \/ SequentialStep
    \/ SequentialDone
    \/ ExportResults

SpecBatch == BatchInit /\ [][BatchNext]_vars

(***************************************************************************)
(* One call of process_images_parallel, each unit of work terminating and  *)
(* the operating system scheduling every process that can run              *)
(***************************************************************************)
PoolCallInit ==
    /\ BatchInit
    /\ ParallelPath(use_parallel, image_paths)

PoolCallNext ==
    \/ MainStartParallel
    \/ \E w \in 1..pool_workers : WorkerTake(w)
    \/ \E w \in 1..pool_workers : WorkerRun(w)
    \/ PoolReturn

\* a step of the call is possible: the guards of its four steps
PoolCallCanStep ==
    \/ main_pc = "start"
    \/ /\ pool = "open"
       /\ \/ \E w \in 1..pool_workers : worker_task[w] = 0 /\ next_i <= Len(image_paths)
          \/ \E w \in 1..pool_workers : worker_task[w] # 0
          \/ \A k \in DOMAIN tasks : tasks[k] # NotCalled

\* weak fairness of the call's steps, the enabling condition written out:
\* the call keeps taking steps for as long as it has not returned
SpecPoolCall ==
    /\ PoolCallInit
    /\ [][PoolCallNext]_vars
    /\ (<>[](main_pc = "returned") \/ []<><<PoolCallNext>>_vars)

\* the same program run under an invalid configuration
SpecAnyConfig == AnyConfigInit /\ [][BatchNext]_vars

(***************************************************************************)
(* Claims about the metrics (checked under SpecMetrics)                    *)
(***************************************************************************)
\* the positive pixels of the two masks, counted independently of the code
GSet == {i \in Pixels : m_gt[i] = 1}

PSet == {i \in Pixels : m_pred[i] = 1}

\* the values the standalone functions returned so far
Returned ==
    {m_ret[f][1] : f \in {g \in {"dice", "iou", "precision", "recall"} : m_ret[g] # NotCalled}}

\* the components compute_all_metrics returned, if it was called
ReturnedAll == {m_ret.all[k] : k \in DOMAIN m_ret.all}

\* C1: when pred is bit-identical to gt and gt has a positive pixel, each of
\* dice, iou, precision, recall and every component of compute_all_metrics
\* is exactly 1.0.
C1_PerfectMatchIsExactlyOne ==
    (m_gt = m_pred /\ GSet # {}) =>
        \A x \in Returned \cup ReturnedAll : FEq(x, One)

\* C2: iou <= dice <= 1.0 for all masks, and both are 1.0 when both masks
\* are all-zero; for the standalone functions and for compute_all_metrics.
C2_IouLeDiceLeOne ==
    /\ m_ret.dice # NotCalled =>
          /\ FLe(m_ret.dice[1], One)
          /\ (GSet = {} /\ PSet = {}) => FEq(m_ret.dice[1], One)
    /\ m_ret.iou # NotCalled =>
          /\ FLe(m_ret.iou[1], One)
          /\ (GSet = {} /\ PSet = {}) => FEq(m_ret.iou[1], One)
    /\ (m_ret.dice # NotCalled /\ m_ret.iou # NotCalled) =>
          FLe(m_ret.iou[1], m_ret.dice[1])
    /\ m_ret.all # NotCalled =>
          /\ FLe(m_ret.all[2], m_ret.all[1])
          /\ FLe(m_ret.all[1], One)
          /\ (GSet = {} /\ PSet = {}) =>
                (FEq(m_ret.all[1], One) /\ FEq(m_ret.all[2], One))

\* C2 witness: a partial overlap, where iou < dice < 1.0, and all three
\* functions have been called.
C2_Witness ==
    /\ m_ret.dice # NotCalled /\ m_ret.iou # NotCalled /\ m_ret.all # NotCalled
    /\ GSet \cap PSet # {} /\ GSet # PSet
    /\ ~FLe(m_ret.dice[1], m_ret.iou[1])
    /\ ~FLe(One, m_ret.dice[1])
    /\ ~FLe(m_ret.all[1], m_ret.all[2])

\* C3: masks that share no positive pixel, at least one of them non-empty,
\* have dice = 0.0 and iou = 0.0; when both are non-empty and disjoint,
\* precision and recall are 0.0 too.
C3_DisjointIsZero ==
    (GSet \cap PSet = {} /\ (GSet # {} \/ PSet # {})) =>
        /\ m_ret.dice # NotCalled => FEq(m_ret.dice[1], Zero)
        /\ m_ret.iou # NotCalled => FEq(m_ret.iou[1], Zero)
        /\ (GSet # {} /\ PSet # {}) =>
              /\ m_ret.precision # NotCalled => FEq(m_ret.precision[1], Zero)
              /\ m_ret.recall # NotCalled => FEq(m_ret.recall[1], Zero)

\* C3 witness: two non-empty disjoint masks with all four functions called.
C3_Witness ==
    /\ GSet # {} /\ PSet # {} /\ GSet \cap PSet = {}
    /\ \A f \in {"dice", "iou", "precision", "recall"} : m_ret[f] # NotCalled
    /\ FEq(m_ret.dice[1], Zero) /\ FEq(m_ret.recall[1], Zero)

\* the four-way table of the specification, from independent pixel counts
TablePrecision ==
    IF PSet = {}
    THEN (IF GSet = {} THEN One ELSE Zero)
    ELSE Flt(Cardinality(GSet \cap PSet), Cardinality(PSet), 1)

TableRecall ==
    IF GSet = {}
    THEN (IF PSet = {} THEN One ELSE Zero)
    ELSE Flt(Cardinality(GSet \cap PSet), Cardinality(GSet), 1)

CandidateKept(c) == c > ThreshScale \div 100 /\ c < (99 * ThreshScale) \div 100

\* C5: for a pathological slice both processors produce
\* prediction = (Image > t) and metrics = compute_all_metrics(Mask, prediction)
\* for every threshold t pso_threshold returns, t = 0.0 included, and the two
\* processors yield the same prediction for the same image, mask, threshold.
C5_PathologicalPrediction ==
    (pc = "done" /\ Sum(mask) > 0) =>
        /\ pred = [i \in Pixels |-> IF PixelGreater(img[i], threshold[1]) THEN 1 ELSE 0]
        /\ metrics = compute_all_metrics(mask, pred)
        /\ PredParallel(img, mask, threshold) = PredSequential(img, threshold)

\* C6: for a slice whose mask has no positive pixel the processor never
\* invokes pso_threshold, predicts all-zero, returns threshold None and all
\* four metrics equal to 1.0.
C6_HealthySlice ==
    Sum(mask) = 0 =>
        /\ pso_calls = 0
        /\ optimizer = NoSwarm
        /\ pc = "done" =>
              /\ pred = Zeros
              /\ threshold = None
              /\ Len(metrics) = 4
              /\ \A k \in 1..4 : FEq(metrics[k], One)

\* C6 witness: a healthy slice with a bright image, through the parallel
\* processor, returned.
C6_Witness ==
    /\ pc = "done" /\ Sum(mask) = 0 /\ processor = "parallel"
    /\ \E i \in Pixels : img[i] = 255
    /\ threshold = None /\ metrics = <<One, One, One, One>>

\* C8: pso_threshold returns a threshold inside config.PSO_BOUNDS, both
\* when the candidate is kept and when the Otsu value is substituted.
C8_ThresholdInBounds ==
    (pc \in {"thresholded", "done"} /\ threshold # None) =>
        /\ threshold[1] >= PSO_BOUNDS[1]
        /\ threshold[1] <= PSO_BOUNDS[2]

\* C8 witness: the swarm ended on a boundary of the search space, the
\* candidate was discarded and a non-zero Otsu value, inside the bounds,
\* was returned.
C8_Witness ==
    /\ pc = "thresholded"
    /\ ~CandidateKept(optimizer.best_pos)
    /\ threshold[1] > PSO_BOUNDS[1] /\ threshold[1] < PSO_BOUNDS[2]

\* a second C8 case: a kept candidate was returned
C8_KeptReached ==
    /\ pc = "thresholded"
    /\ CandidateKept(optimizer.best_pos)
    /\ threshold[1] = optimizer.best_pos

\* candidates around the two cut-offs of the finalize step
CutoffCandidates ==
    {ThreshScale \div 100 + d : d \in {-1, 0, 1}}
    \cup {(99 * ThreshScale) \div 100 + d : d \in {-1, 0, 1}}
    \cup {PSO_BOUNDS[1], PSO_BOUNDS[2]}

\* C9: the finalize step returns the swarm's global-best position when
\* 0.01 < candidate < 0.99, and otherwise the Otsu threshold of the image
\* (a function of the image alone) scaled to [0,1]; at the cut-offs
\* themselves the candidate is discarded.
C9_FinalizeRule ==
    /\ pc \in {"thresholded", "done"} /\ threshold # None =>
          threshold[1] = IF CandidateKept(optimizer.best_pos)
                         THEN optimizer.best_pos
                         ELSE OtsuThreshold(img) * (ThreshScale \div 255)
    /\ pc = "optimizing" /\ iters = 0 =>
          \A otsu \in {OtsuThreshold(img) * (ThreshScale \div 255)} :
             \A c \in CutoffCandidates :
                Finalize(img, c) = IF CandidateKept(c) THEN c ELSE otsu

\* C9 witness: a candidate at the lower boundary was discarded for an Otsu
\* value that differs from it.
C9_Witness ==
    /\ pc = "done" /\ threshold # None
    /\ optimizer.best_pos <= ThreshScale \div 100
    /\ threshold[1] # optimizer.best_pos
    /\ threshold[1] = OtsuThreshold(img) * (ThreshScale \div 255)

\* a second C9 case: a kept candidate
C9_KeptReached ==
    /\ pc = "done" /\ threshold # None
    /\ CandidateKept(optimizer.best_pos)

\* C10: two runs with the same configured seed, image, mask and
\* hyperparameters return the identical threshold.
C10_SameSeedSameThreshold ==
    (run = 2 /\ pc = "done") => threshold = first_threshold

(***************************************************************************)
(* Claims about one pso_threshold invocation (checked under Spec)          *)
(***************************************************************************)
\* C11: every invocation of pso_threshold terminates. While the call runs
\* its iteration count is at most config.PSO_ITERATIONS (below it PsoIterate
\* can be taken, at it PsoFinalize can: the call never blocks); every step
\* of the call is one more iteration or the return (it never loops without
\* progress); and the return comes after exactly config.PSO_ITERATIONS
\* iterations of a single invocation.
C11_PsoTerminates ==
    /\ [](pc = "optimizing" => (iters >= 0 /\ iters <= PSO_ITERATIONS))
    /\ [](pc = "thresholded" => (iters = PSO_ITERATIONS /\ pso_calls = 1))
    /\ [][pc = "optimizing" =>
            \/ (pc' = "optimizing" /\ iters' = iters + 1)
            \/ (pc' = "thresholded" /\ iters = PSO_ITERATIONS /\ iters' = iters)]_vars

\* a pathological slice whose pso_threshold call has returned after the
\* configured number of iterations
C11_Witness ==
    /\ pc = "thresholded"
    /\ Sum(mask) > 0
    /\ iters = PSO_ITERATIONS
    /\ optimizer # NoSwarm

(***************************************************************************)
(* Claims about the batch run (checked under SpecBatch)                    *)
(***************************************************************************)
\* the record a processor produced for the slice called name
RecordOf(name) == CHOOSE r \in {results[k] : k \in DOMAIN results} : r.base_name = name

\* C7: after a batch run, parallel or sequential, every record of the
\* tumour group has a non-null threshold, every record of the healthy group
\* has a null threshold and metrics (1.0, 1.0, 1.0, 1.0), and a record is
\* in the tumour group exactly when its mask has a positive pixel.
C7_GroupsPartition ==
    main_pc = "collected" =>
        /\ Len(tumour_thresholds) = Len(tumour_image_names)
        /\ Len(tumour_metrics) = Len(tumour_image_names)
        /\ Len(healthy_metrics) = Len(healthy_image_names)
        /\ \A k \in DOMAIN tumour_image_names :
              /\ tumour_thresholds[k] # None
              /\ tumour_thresholds[k] = RecordOf(tumour_image_names[k]).threshold
              /\ tumour_metrics[k] = RecordOf(tumour_image_names[k]).metrics
        /\ \A k \in DOMAIN healthy_image_names :
              /\ RecordOf(healthy_image_names[k]).threshold = None
              /\ healthy_metrics[k] = RecordOf(healthy_image_names[k]).metrics
              /\ \A j \in 1..4 : FEq(healthy_metrics[k][j], One)
        /\ \A k \in DOMAIN results :
              /\ (\E j \in DOMAIN tumour_image_names :
                      tumour_image_names[j] = results[k].base_name)
                 <=> (\E i \in Pixels : dataset[results[k].base_name].mask[i] = 1)
              /\ (\E j \in DOMAIN healthy_image_names :
                      healthy_image_names[j] = results[k].base_name)
                 <=> (\A i \in Pixels : dataset[results[k].base_name].mask[i] = 0)

\* C7 witness: a parallel batch that collected a healthy record and a
\* tumour record whose threshold is 0.0.
C7_Witness ==
    /\ main_pc = "collected" /\ use_parallel
    /\ Len(healthy_image_names) = 1
    /\ Len(tumour_image_names) >= 1
    /\ tumour_thresholds[1] = Float(0)

\* a sequential batch that collected both groups
C7_SequentialReached ==
    /\ main_pc = "collected" /\ ~use_parallel
    /\ Len(healthy_image_names) >= 1 /\ Len(tumour_image_names) >= 1

(***************************************************************************)
(* Claims about the batch orchestration (checked under SpecBatch)          *)
(***************************************************************************)
\* main has left process_images_parallel
PoolCallOver ==
    /\ ParallelPath(use_parallel, image_paths)
    /\ main_pc \in {"returned", "collected", "triplets", "done"}

\* the inputs whose file cannot be processed, told from the dataset alone:
\* the mask file is missing, or the image or mask cannot be decoded
FailedInputs ==
    {k \in DOMAIN image_paths :
        \/ ~dataset[image_paths[k]].mask_exists
        \/ ~dataset[image_paths[k]].readable}

\* C12: process_images_parallel returns at most as many records as it got
\* inputs, the difference being exactly the number of inputs that failed;
\* a failing unit does not end the batch call: every unit returns, and
\* every input that did not fail has its record in the result, in input
\* order.
C12_ParallelDropsExactlyFailures ==
    PoolCallOver =>
        /\ Len(results) <= Len(image_paths)
        /\ Len(image_paths) - Len(results) = Cardinality(FailedInputs)
        /\ \A k \in DOMAIN tasks : tasks[k] # NotCalled
        /\ \A k \in DOMAIN image_paths :
              k \notin FailedInputs =>
                  \E j \in DOMAIN results : results[j].base_name = image_paths[k]
        /\ \A i, j \in DOMAIN results :
              i < j => results[i].base_name < results[j].base_name

\* a batch call whose first unit failed and whose second unit's record was
\* returned
C12_Witness ==
    /\ PoolCallOver
    /\ 1 \in FailedInputs
    /\ Len(image_paths) >= 2
    /\ Len(results) >= 1
    /\ results[1].base_name = image_paths[2]

\* C13: every slice dropped from a batch has a warning or error log record
\* identifying it, in the parallel path as in the sequential path.
C13_DroppedSliceIsLogged ==
    main_pc \in {"collected", "triplets", "done"} =>
        \A k \in FailedInputs :
            \E e \in log : /\ e.base_name = image_paths[k]
                           /\ e.level \in {"warning", "error"}

\* C14: with an empty dataset main aborts before any processing: it never
\* gets past the abort, no slice is processed, no pool is created, and no
\* plot, triplet, summary or per-image file is written.
C14_EmptyDatasetAborts ==
    Len(image_paths) = 0 =>
        /\ main_pc \in {"start", "aborted"}
        /\ pool = "none" /\ pool_workers = 0 /\ tasks = <<>>
        /\ next_i = 0 /\ results = <<>>
        /\ tumour_metrics = <<>> /\ healthy_metrics = <<>>
        /\ saved_triplets = 0 /\ triplet_files = {}
        /\ files_written = {}

\* main has aborted on an empty dataset, with the error logged
C14_Witness ==
    /\ main_pc = "aborted"
    /\ Len(image_paths) = 0
    /\ LogEntry("error", 0) \in log
    /\ files_written = {}

\* the tumour slices of the dataset that can be loaded
LoadableTumourInputs ==
    {k \in DOMAIN image_paths :
        /\ k \notin FailedInputs
        /\ Sum(dataset[image_paths[k]].mask) > 0}

\* C15 (checked under SpecAnyConfig): with a non-positive particle or
\* iteration count configured the run is aborted before any slice is
\* processed (no unit is handed to a worker, no record is produced, no
\* file is written), and the run never completes and exports results with
\* the slices that needed the optimizer individually dropped.
C15_InvalidConfigIsFatal ==
    ~config_ok =>
        /\ results = <<>>
        /\ \A w \in DOMAIN worker_task : worker_task[w] = 0
        /\ \A k \in DOMAIN tasks : tasks[k] = NotCalled
        /\ files_written = {}
        /\ ~(/\ main_pc = "done"
              /\ LoadableTumourInputs # {}
              /\ \A k \in LoadableTumourInputs :
                    \A j \in DOMAIN results : results[j].base_name # image_paths[k])

\* C18: the record a unit produces depends only on its own slice, not on
\* the worker that ran it or on what that worker processed before: no
\* random-source state survives from one pso_threshold call into the
\* next, so each unit returns what a worker that has processed nothing
\* returns for its slice.
C18_UnitsIndependent ==
    \A k \in DOMAIN tasks :
        tasks[k] # NotCalled =>
            tasks[k][1] = process_single_image(image_paths[k], dataset[image_paths[k]],
                                               TRUE, main_np_random, config_ok).ret

\* C19: in the parallel path the qualitative examples are selected and
\* written only after every unit has completed and the pool has been shut
\* down: while the triplet loop runs, and whenever a triplet has been
\* written, no worker is running.
C19_TripletsAfterPool ==
    (/\ ParallelPath(use_parallel, image_paths)
     /\ (main_pc = "triplets" \/ saved_triplets > 0 \/ triplet_files # {})) =>
        /\ pool = "closed"
        /\ \A w \in DOMAIN worker_task : worker_task[w] = 0
        /\ \A k \in DOMAIN tasks : tasks[k] # NotCalled

\* a triplet was written after a pool of two or more workers was shut down
C19_Witness ==
    /\ ParallelPath(use_parallel, image_paths)
    /\ triplet_files # {}
    /\ pool = "closed"
    /\ pool_workers >= 2

\* C20: with n_workers None the pool has max(1, cpu_count() - 1) workers,
\* so at least one for every CPU count >= 1; a supplied worker count is
\* used as it is.
C20_DefaultPoolSize ==
    /\ pool # "none" =>
          /\ pool_workers >= 1
          /\ n_workers = None =>
                /\ cpu_count >= 1
                /\ (cpu_count >= 2 => pool_workers = cpu_count - 1)
                /\ (cpu_count = 1 => pool_workers = 1)
          /\ n_workers # None => pool_workers = n_workers[1]
    /\ \A cpus \in 1..MaxCpus : PoolSize(None, cpus) >= 1

\* a pool created with the default size on a one-CPU machine
C20_Witness ==
    /\ pool = "open"
    /\ n_workers = None
    /\ cpu_count = 1
    /\ pool_workers = 1

\* a pool created with the default size on a machine with three CPUs or more
C20_ManyCpusReached ==
    /\ pool = "open"
    /\ n_workers = None
    /\ cpu_count >= 3
    /\ pool_workers = cpu_count - 1

(***************************************************************************)
(* Claims about the summary statistics (checked under SpecSummary)         *)
(***************************************************************************)
\* the columns of a group's summary
SummaryColumns(group) ==
    IF group = "tumour"
    THEN {"dice", "iou", "precision", "recall", "threshold"}
    ELSE {"dice", "iou", "precision", "recall"}

\* the list a group was summarised from
GroupRecords(group) ==
    IF group = "tumour" THEN arg_tumour_metrics ELSE arg_healthy_metrics

\* C16: the returned stats hold the 'tumour' group exactly when there is a
\* tumour record and the 'healthy' group exactly when there is a healthy
\* record; a group that is present counts at least one record (no group is
\* zero-filled) and none of its statistics was computed over an empty list.
C16_EmptyGroupOmitted ==
    stats # NotCalled =>
        /\ ("tumour" \in DOMAIN stats[1]) <=> (arg_tumour_metrics # <<>>)
        /\ ("healthy" \in DOMAIN stats[1]) <=> (arg_healthy_metrics # <<>>)
        /\ DOMAIN stats[1] \subseteq {"tumour", "healthy"}
        /\ \A group \in DOMAIN stats[1] :
              /\ stats[1][group].count > 0
              /\ \A c \in SummaryColumns(group) :
                    stats[1][group][c].std[2] # <<>>

\* C16 witness: stats were generated for a healthy-only input and hold the
\* healthy group alone
C16_Witness ==
    /\ stats # NotCalled
    /\ arg_tumour_metrics = <<>>
    /\ arg_healthy_metrics # <<>>
    /\ DOMAIN stats[1] = {"healthy"}

\* C16: stats were generated for lists that are all empty, and are empty
C16_AllEmptyReached ==
    /\ stats # NotCalled
    /\ arg_tumour_metrics = <<>>
    /\ arg_healthy_metrics = <<>>
    /\ stats[1] = <<>>

\* C17: in the returned stats every group's count is the number of its
\* records, and every column of every group satisfies
\* min <= median <= max and min <= mean <= max.
C17_SummaryOrdered ==
    stats # NotCalled =>
        \A group \in DOMAIN stats[1] :
            /\ stats[1][group].count = Len(GroupRecords(group))
            /\ \A c \in SummaryColumns(group) :
                  LET col == stats[1][group][c]
                  IN  /\ Float64Le(col.min, col.median)
                      /\ Float64Le(col.median, col.max)
                      /\ Float64Le(col.min, col.mean)
                      /\ Float64Le(col.mean, col.max)

(***************************************************************************)
(* Claims about the optimizer's objective and bests (checked under Spec)   *)
(***************************************************************************)
\* -x for a metric value x
Negated(x) == Flt(-x.a, x.b, x.e)

\* the thresholds that coincide with a pixel level, v / 255
LevelThresholds == {v * (ThreshScale \div 255) : v \in Levels}

\* the positions the swarm of the running call holds
SwarmPositions ==
    {optimizer.position[i] : i \in Particles}
        \cup {optimizer.pbest_pos[i] : i \in Particles}
        \cup {optimizer.best_pos}

\* C21: for a non-empty mask, at every position of the swarm (and at every
\* threshold that meets a pixel level) the objective inside pso_threshold
\* is the negated dice_coefficient of the mask and Image > position, and
\* the scores the swarm holds are these values.
C21_ObjectiveIsNegatedDice ==
    (optimizer # NoSwarm /\ Sum(mask) > 0) =>
        /\ \A p \in SwarmPositions \cup LevelThresholds :
              objective(img, mask, p) = Negated(dice_coefficient(mask, Binarize(img, p)))
        /\ \A i \in Particles :
              optimizer.pbest_cost[i] =
                  Negated(dice_coefficient(mask, Binarize(img, optimizer.pbest_pos[i])))
        /\ optimizer.best_cost =
              Negated(dice_coefficient(mask, Binarize(img, optimizer.best_pos)))

\* C21 witness: the swarm has iterated on a slice with a non-empty mask and
\* holds a position where the prediction overlaps the mask (nonzero Dice)
C21_Witness ==
    /\ optimizer # NoSwarm
    /\ Sum(mask) > 0
    /\ iters > 0
    /\ optimizer.best_cost.a < 0

\* C22 (checked under SpecSwarmRun): while an optimizer exists its global-best score is no worse (no
\* higher) than any particle's personal-best score and is the score of the
\* global-best position; an iteration never makes the global-best score
\* worse, and leaves it no worse than the score of every position it
\* evaluated. Hence the candidate taken after the last iteration scores at
\* least as high a Dice as every position evaluated during the run.
C22_GlobalBestNeverWorse ==
    /\ [](optimizer # NoSwarm =>
            /\ \A i \in Particles : FLe(optimizer.best_cost, optimizer.pbest_cost[i])
            /\ \A i \in Particles :
                  FLe(optimizer.pbest_cost[i], objective(img, mask, optimizer.pbest_pos[i]))
            /\ optimizer.best_cost = objective(img, mask, optimizer.best_pos))
    /\ [][(optimizer # NoSwarm /\ optimizer' # NoSwarm /\ iters' = iters + 1) =>
            /\ FLe(optimizer'.best_cost, optimizer.best_cost)
            /\ \A i \in Particles :
                  /\ FLe(optimizer'.pbest_cost[i], optimizer.pbest_cost[i])
                  /\ FLe(optimizer'.best_cost,
                         objective(img, mask, optimizer.position[i]))]_vars
    /\ [](pc = "thresholded" =>
            /\ iters = PSO_ITERATIONS
            /\ optimizer # NoSwarm
            /\ threshold = Float(Finalize(img, optimizer.best_pos)))

\* C22 witness: the run is over, some particle's personal best is strictly
\* worse than the global best, and some particle has moved off its personal
\* best (positions worse than the bests were evaluated)
C22_Witness ==
    /\ pc = "thresholded"
    /\ optimizer # NoSwarm
    /\ iters = PSO_ITERATIONS
    /\ \E i \in Particles : FLt(optimizer.best_cost, optimizer.pbest_cost[i])
    /\ \E i \in Particles : optimizer.position[i] # optimizer.pbest_pos[i]

\* C22: an iteration strictly improved the global best on what
\* initialization had found
C22_ImprovedReached ==
    /\ optimizer # NoSwarm
    /\ iters > 0
    /\ \E r \in 0..(RngMod - 1) :
          /\ np_random = RngAt(r, 2 * PSO_N_PARTICLES * (iters + 1))
          /\ FLt(optimizer.best_cost, SwarmInit(img, mask, r).best_cost)

(***************************************************************************)
(* Claims about compute_all_metrics (checked under SpecMetrics)            *)
(***************************************************************************)
\* every metric function and compute_all_metrics has been called
AllFiveCalled ==
    /\ m_ret.dice # NotCalled
    /\ m_ret.iou # NotCalled
    /\ m_ret.precision # NotCalled
    /\ m_ret.recall # NotCalled
    /\ m_ret.all # NotCalled

\* C23: on the same pair of masks, compute_all_metrics returns exactly the
\* tuple of what dice_coefficient, iou_coefficient, precision_coefficient
\* and recall_coefficient return, empty masks included.
C23_ComputeAllIsTheFour ==
    AllFiveCalled =>
        m_ret.all = <<m_ret.dice[1], m_ret.iou[1], m_ret.precision[1], m_ret.recall[1]>>

\* C23 witness: all five were called on two empty masks and agree on 1.0
C23_Witness ==
    /\ AllFiveCalled
    /\ m_gt = Zeros
    /\ m_pred = Zeros
    /\ m_ret.all = <<One, One, One, One>>

\* C23: all five were called on a pair of masks of which exactly one is
\* empty
C23_OneEmptyReached ==
    /\ AllFiveCalled
    /\ (Sum(m_gt) = 0) # (Sum(m_pred) = 0)
    /\ FEq(m_ret.all[1], Zero)

(***************************************************************************)
(* Claims about one process_images_parallel call (under SpecPoolCall)      *)
(***************************************************************************)
\* C24: a call of process_images_parallel whose units all terminate
\* eventually returns; when it has returned every input has an outcome (a
\* record or a drop); an outcome once produced is never produced again or
\* replaced, and no input is worked on by two workers or worked on again
\* after it has its outcome.
C24_PoolCallReturns ==
    /\ (main_pc \in {"start", "pool"}) ~> (main_pc = "returned")
    /\ [](main_pc # "returned" => PoolCallCanStep)
    /\ [](main_pc = "returned" =>
            /\ DOMAIN tasks = DOMAIN image_paths
            /\ \A k \in DOMAIN tasks : tasks[k] # NotCalled)
    /\ [](\A w \in DOMAIN worker_task :
            worker_task[w] # 0 =>
                /\ tasks[worker_task[w]] = NotCalled
                /\ \A v \in DOMAIN worker_task :
                      v # w => worker_task[v] # worker_task[w])
    /\ [][\A k \in DOMAIN tasks :
            /\ tasks[k] # NotCalled => tasks'[k] = tasks[k]
            /\ (tasks[k] = NotCalled /\ tasks'[k] # NotCalled) =>
                  \E w \in DOMAIN worker_task : worker_task[w] = k]_vars

\* C24 witness: the call has returned after two workers were busy at the
\* same time, with a record and a drop among the outcomes
C24_Witness ==
    /\ main_pc = "returned"
    /\ pool_workers >= 2
    /\ \E k \in DOMAIN tasks : tasks[k][1] = None
    /\ \E k \in DOMAIN tasks : tasks[k][1] # None

\* C24: two workers are busy at the same time
C24_TwoBusyReached ==
    \E v, w \in DOMAIN worker_task : v # w /\ worker_task[v] # 0 /\ worker_task[w] # 0

(***************************************************************************)
(* api.py: process_batch, the handler of POST /api/batch                   *)
(***************************************************************************)
MaxItems == 2

\* A base64 field of a request item: the key is absent (or the string is
\* empty), base64.b64decode raises on it, cv2.imdecode returns None for
\* its bytes, or it decodes to the picture in pixels.
Field(kind, pixels) == [kind |-> kind, pixels |-> pixels]

ImageFields ==
    {Field("absent", Zeros), Field("malformed", Zeros),
     Field("undecodable", Zeros), Field("ok", ImgRamp)}

MaskFields ==
    {Field("absent", Zeros), Field("malformed", Zeros),
     Field("undecodable", Zeros), Field("ok", Zeros), Field("ok", MaskLast)}

Items == [image : ImageFields, mask : MaskFields]

\* the request body without an 'images' key
NoImages == <<>>

\* the float values in result_item['metrics']
MetricsDict(ms) == [dice |-> ms[1], iou |-> ms[2], precision |-> ms[3], recall |-> ms[4]]

\* One pass of the loop body (lines 161-225) over item, with the lists
\* collected so far and numpy's random source: raised says an exception
\* left the body; otherwise lists and rng are the values after the pass.
BatchItem(item, lists, rng) ==
    IF item.image.kind = "absent"
    THEN [raised |-> FALSE, lists |-> lists, rng |-> rng]
    ELSE IF item.image.kind = "malformed"
    THEN [raised |-> TRUE, lists |-> lists, rng |-> rng]
    ELSE IF item.image.kind = "undecodable"
    THEN [raised |-> FALSE, lists |-> lists, rng |-> rng]
    ELSE IF item.mask.kind = "absent"
    THEN [raised |-> FALSE,
          lists |-> [lists EXCEPT !.results = Append(@, [processed |-> TRUE])],
          rng |-> rng]
    ELSE IF item.mask.kind = "malformed"
    THEN [raised |-> TRUE, lists |-> lists, rng |-> rng]
    ELSE IF item.mask.kind = "undecodable"
    THEN [raised |-> FALSE,
          lists |-> [lists EXCEPT !.results = Append(@, [processed |-> TRUE])],
          rng |-> rng]
    ELSE IF Sum(item.mask.pixels) > 0
    THEN LET pso == pso_threshold(item.image.pixels, item.mask.pixels, rng)
             pred_ == Binarize(item.image.pixels, pso.threshold)
             metrics_ == compute_all_metrics(item.mask.pixels, pred_)
         IN  [raised |-> FALSE,
              lists |-> [lists EXCEPT
                           !.tumour_metrics = Append(@, metrics_),
                           !.tumour_thresholds = Append(@, pso.threshold),
                           !.results = Append(@, [processed |-> TRUE,
                                                  metrics |-> MetricsDict(metrics_),
                                                  threshold |-> pso.threshold,
                                                  is_tumour |-> TRUE])],
              rng |-> pso.rng]
    ELSE LET metrics_ == compute_all_metrics(item.mask.pixels, Zeros)
         IN  [raised |-> FALSE,
              lists |-> [lists EXCEPT
                           !.healthy_metrics = Append(@, metrics_),
                           !.results = Append(@, [processed |-> TRUE,
                                                  metrics |-> MetricsDict(metrics_),
                                                  is_healthy |-> TRUE])],
              rng |-> rng]

\* the response bodies
ErrorResponse(status) == [status |-> status]

BatchResponse(lists) ==
    [status |-> 200,
     results |-> lists.results,
     summary |-> generate_summary_statistics(
                     [i \in DOMAIN lists.tumour_metrics |->
                        MetricsFloat64(lists.tumour_metrics[i])],
                     [i \in DOMAIN lists.healthy_metrics |->
                        MetricsFloat64(lists.healthy_metrics[i])],
                     [i \in DOMAIN lists.tumour_thresholds |->
                        ThresholdFloat64(lists.tumour_thresholds[i])]),
     total_processed |-> Len(lists.results)]

\* a request arrives: a body <<items>> of at most MaxItems items, or one
\* without the 'images' key
ApiInit ==
    /\ MetricsIdle
    /\ SliceIdle
    /\ BatchIdle
    /\ SummaryIdle
    /\ data \in {NoImages} \cup {<<items>> : items \in UNION {[1..n -> Items] : n \in 0..MaxItems}}
    /\ api_pc = "start"
    /\ item_i = 0
    /\ api_lists = <<>>
    /\ response = NotCalled

\* lines 153-154: no 'images' key
ApiRejectRequest ==
    /\ api_pc = "start"
    /\ data = NoImages
    /\ api_pc' = "done"
    /\ response' = <<ErrorResponse(400)>>
    /\ UNCHANGED <<metricsVars, sliceVars, batchVars, summaryVars, data, item_i, api_lists>>

\* lines 156-159
ApiBegin ==
    /\ api_pc = "start"
    /\ data # NoImages
    /\ api_pc' = "loop"
    /\ item_i' = 1
    /\ api_lists' = [results |-> <<>>, tumour_metrics |-> <<>>,
                     healthy_metrics |-> <<>>, tumour_thresholds |-> <<>>]
    /\ UNCHANGED <<metricsVars, sliceVars, batchVars, summaryVars, data, response>>

\* lines 161-225 for one item; an exception leaves the loop and the try
\* block and is answered at lines 238-239
ApiItem ==
    /\ api_pc = "loop"
    /\ item_i <= Len(data[1])
    /\ LET r == BatchItem(data[1][item_i], api_lists, np_random)
       IN  IF r.raised
           THEN /\ api_pc' = "done"
                /\ response' = <<ErrorResponse(500)>>
                /\ UNCHANGED <<item_i, api_lists, np_random>>
           ELSE /\ item_i' = item_i + 1
                /\ api_lists' = r.lists
                /\ np_random' = r.rng
                /\ UNCHANGED <<api_pc, response>>
    /\ UNCHANGED <<metricsVars, img, mask, processor, pc, py_random, optimizer, iters,
                   threshold, pred, metrics, pso_calls, run, first_threshold,
                   batchVars, summaryVars, data>>

\* lines 227-236
ApiRespond ==
    /\ api_pc = "loop"
    /\ item_i > Len(data[1])
    /\ api_pc' = "done"
    /\ response' = <<BatchResponse(api_lists)>>
    /\ UNCHANGED <<metricsVars, sliceVars, batchVars, summaryVars, data, item_i, api_lists>>

ApiNext == ApiRejectRequest \/ ApiBegin \/ ApiItem \/ ApiRespond

SpecApi == ApiInit /\ [][ApiNext]_vars

(***************************************************************************)
(* Claims about process_batch (under SpecApi)                              *)
(***************************************************************************)
\* an item whose decoding raises
ItemFails(item) ==
    \/ item.image.kind = "malformed"
    \/ item.image.kind = "ok" /\ item.mask.kind = "malformed"

\* an item that gets a result: its image decodes and its mask does not raise
ItemGood(item) == item.image.kind = "ok" /\ item.mask.kind # "malformed"

\* C25: a request with an 'images' list is answered with status 200, one
\* result for each item that can be decoded and processed, and the summary,
\* whatever the other items of the list are.
C25_ItemFailureIsLocal ==
    (response # NotCalled /\ data # NoImages) =>
        /\ response[1].status = 200
        /\ response[1].total_processed =
              Cardinality({k \in DOMAIN data[1] : ItemGood(data[1][k])})

\* C25: reached, a request with a good item and an item that cannot
\* be base64-decoded is answered with status 500 and no results
C25_BatchFailsReached ==
    /\ response # NotCalled
    /\ data # NoImages
    /\ \E k \in DOMAIN data[1] : ItemGood(data[1][k])
    /\ \E k \in DOMAIN data[1] : ItemFails(data[1][k])
    /\ response[1] = ErrorResponse(500)

(***************************************************************************)
(* Claims about the exported table and the qualitative examples            *)
(* (under SpecBatch)                                                       *)
(***************************************************************************)
\* C26: tumour_image_names, tumour_metrics and tumour_thresholds have equal
\* length and entry i of each belongs to the same slice, at every point of a
\* run on either path; every row of tumour_metrics.csv pairs an image name
\* with the metrics and the threshold recorded for that image.
C26_TumourRowsAligned ==
    /\ Len(tumour_image_names) = Len(tumour_metrics)
    /\ Len(tumour_metrics) = Len(tumour_thresholds)
    /\ \A i \in DOMAIN tumour_image_names :
          /\ tumour_metrics[i] = RecordOf(tumour_image_names[i]).metrics
          /\ tumour_thresholds[i] = RecordOf(tumour_image_names[i]).threshold
    /\ \A i \in DOMAIN tumour_csv :
          /\ tumour_csv[i][2] = RecordOf(tumour_csv[i][1]).metrics
          /\ tumour_csv[i][3] = RecordOf(tumour_csv[i][1]).threshold

\* C26: reached, a table written on the parallel path with a row whose
\* metrics belong to another image
C26_MisalignedRowReached ==
    /\ main_pc = "done"
    /\ ParallelPath(use_parallel, image_paths)
    /\ \E i \in DOMAIN tumour_csv :
          tumour_csv[i][2] # RecordOf(tumour_csv[i][1]).metrics

\* C26: on the sequential path the lists and the rows are aligned
C26_SequentialAligned ==
    ~ParallelPath(use_parallel, image_paths) => C26_TumourRowsAligned

\* C27: on the parallel path the prediction panel of every saved triplet is
\* the prediction of the record the batch returned for that slice.
C27_TripletShowsBatchPrediction ==
    ParallelPath(use_parallel, image_paths) =>
        \A t \in triplet_files : t.pred = RecordOf(t.name).pred

\* C27: reached, a triplet generated from the slice's own file whose
\* prediction differs from the one recorded for the slice
C27_RederivedReached ==
    /\ ParallelPath(use_parallel, image_paths)
    /\ \E t \in triplet_files :
          /\ FindPath(image_paths, t.name) = t.name
          /\ t.img = RecordOf(t.name).img
          /\ t.mask = RecordOf(t.name).mask
          /\ t.pred # RecordOf(t.name).pred

\* C28: on the parallel path the triplet saved under a base name shows the
\* image and the mask of the file of exactly that base name.
C28_TripletFromOwnFile ==
    ParallelPath(use_parallel, image_paths) =>
        \A t \in triplet_files :
            /\ t.img = dataset[t.name].img
            /\ t.mask = dataset[t.name].mask

\* C28: reached, the triplet of /b.png made from the file /ab.png
C28_OtherFileReached ==
    /\ ParallelPath(use_parallel, image_paths)
    /\ \E t \in triplet_files :
          /\ FindPath(image_paths, t.name) # t.name
          /\ t.mask # dataset[t.name].mask

\* C29: the records process_images_parallel returns are in input order:
\* their identifiers are input paths, each at most once, in increasing
\* position of the input list.
C29_RecordsInInputOrder ==
    PoolCallOver =>
        /\ \A i \in DOMAIN results :
              \E k \in DOMAIN image_paths : image_paths[k] = results[i].base_name
        /\ \A i, j \in DOMAIN results :
              i < j =>
                 \A k, l \in DOMAIN image_paths :
                    (image_paths[k] = results[i].base_name
                        /\ image_paths[l] = results[j].base_name) => k < l

\* C29 witness: a call with two workers has returned two records
C29_Witness ==
    /\ main_pc = "returned"
    /\ pool_workers >= 2
    /\ Len(results) >= 2

\* C29: the second input returns its record before the first has returned
C29_LaterInputFirstReached ==
    /\ pool = "open"
    /\ Len(tasks) >= 2
    /\ tasks[1] = NotCalled
    /\ tasks[2] # NotCalled
    /\ tasks[2][1] # None

C30_SequentialBoundReached ==
    /\ main_pc = "done"
    /\ ~use_parallel
    /\ saved_triplets = k_triplets
    /\ Len(tumour_image_names) > k_triplets

\* C30: reached, a triplet saved under a tumour slice's name whose panels
\* come from a slice without tumour (the lookup of C28)
C30_HealthyShownReached ==
    \E t \in triplet_files : Sum(t.mask) = 0 /\ Sum(dataset[t.name].mask) > 0

====
